---- MODULE Spec2Model ----
(***************************************************************************)
(* Competitor-Agent: the ingestion-and-deduplication pipeline.             *)
(*                                                                         *)
(* Strings of the program are sequences of one-character strings, so that  *)
(* urlsplit/urlunsplit, str.lower and the f-string concatenations of the   *)
(* identity scheme are computed character by character.                    *)
(*                                                                         *)
(*   SpecUrl    normalize_url and make_id applied to pairs of inputs       *)
(*   SpecScan   jobs/daily_scan.main run repeatedly over crawled pages     *)
(*   SpecEmail  the webhook handler, the batch reprocessor and the         *)
(*              dashboard's delete_email as interleaved processes over     *)
(*              the three flat-file ledgers                                *)
(*   SpecEmailLater  the same processes, from the state after an earlier   *)
(*              request                                                    *)
(*   SpecEnrich jobs/enrich_updates.main run repeatedly over the Update    *)
(*              Record ledger, with app/classify.classify_article          *)
(***************************************************************************)
EXTENDS Integers, Sequences, FiniteSets, TLC

VARIABLES
    fx,         \* SpecUrl: the two inputs and what the functions returned
    updates,    \* data/updates.csv: the Update Record ledger, in file order
    scan,       \* daily_scan.main: position and locals of the running job
    lastRun,    \* summary of the last finished daily_scan run
    crawled,    \* every page crawl_all has yielded so far, over all runs
    emails,     \* data/emails.csv: the Email Record ledger, in file order
    senders,    \* data/email_senders.csv: the Sender Record ledger
    files,      \* the payload files under data/emails and its subdirectories
    wh,         \* the webhook server: position and locals of the request
    batch,      \* process_emails.main: position and locals of the job
    dash,       \* the dashboard: position and locals of the operation
    enriched,   \* data/enriched_updates.csv, in file order
    enrich,     \* enrich_updates.main: position and locals of the running job
    lock,       \* data/.update_daily.lock exists
    tmp,        \* data/updates.csv.tmp
    ud,         \* update_daily.main: position and locals of each instance
    ap,         \* append_updates.main: position and locals of the job
    crawl,      \* crawl.crawl_competitor: position and locals of the run
    bg          \* webhook_server: _enrichment_running, _enrichment_lock and
                \* the threads of run_enrichment_background

vars == <<fx, updates, scan, lastRun, crawled, emails, senders, files, wh, batch, dash,
          enriched, enrich, lock, tmp, ud, ap, crawl, bg>>

\* The variables of the web path other than the ledger, and of the email path
webVars == <<fx, scan, lastRun, crawled>>
emailVars == <<emails, senders, files, wh, batch, dash>>
enrichVars == <<enriched, enrich>>
jobVars == <<lock, tmp, ud, ap>>
laterVars == <<jobVars, crawl, bg>>

---------------------------------------------------------------------------
(* Bounds *)

MaxSlashes == 2       \* trailing slashes on the longest generated path
MaxRuns == 2          \* daily_scan runs
MaxPagesPerRun == 2   \* pages crawl_all yields in one run
MaxClock == 2         \* distinct readings of the wall clock
MaxDeliveries == 2    \* requests the webhook server receives
MaxBatchRuns == 1     \* runs of the batch reprocessor
MaxDashboardOps == 1  \* operations started from the dashboard
MaxOperations == 2    \* operations started in all, over the three processes
MaxEnrichRuns == 2    \* runs of the enrichment job
MaxInstances == 2     \* update_daily instances
MaxPagesPerSite == 3  \* the largest max_pages_per_site of a configuration
MaxInjections == 3    \* emails the webhook process injects

---------------------------------------------------------------------------
(* Characters and strings *)

UpperAlpha == <<"A", "B", "C", "D", "E", "F", "G", "H", "I", "J", "K", "L", "M", "N", "O", "P", "Q", "R", "S", "T", "U", "V", "W", "X", "Y", "Z">>
LowerAlpha == <<"a", "b", "c", "d", "e", "f", "g", "h", "i", "j", "k", "l", "m", "n", "o", "p", "q", "r", "s", "t", "u", "v", "w", "x", "y", "z">>
DigitChars == <<"0", "1", "2", "3", "4", "5", "6", "7", "8", "9">>

Range(s) == {s[i] : i \in 1..Len(s)}

IsAlpha(c) == c \in Range(UpperAlpha) \cup Range(LowerAlpha)

\* str.lower() on one character
LowerOf ==
    ("A" :> "a") @@ ("B" :> "b") @@ ("C" :> "c") @@ ("D" :> "d") @@ ("E" :> "e") @@ ("F" :> "f") @@
    ("G" :> "g") @@ ("H" :> "h") @@ ("I" :> "i") @@ ("J" :> "j") @@ ("K" :> "k") @@ ("L" :> "l") @@
    ("M" :> "m") @@ ("N" :> "n") @@ ("O" :> "o") @@ ("P" :> "p") @@ ("Q" :> "q") @@ ("R" :> "r") @@
    ("S" :> "s") @@ ("T" :> "t") @@ ("U" :> "u") @@ ("V" :> "v") @@ ("W" :> "w") @@ ("X" :> "x") @@
    ("Y" :> "y") @@ ("Z" :> "z")

Lower(c) == IF c \in DOMAIN LowerOf THEN LowerOf[c] ELSE c

\* str.lower()
LowerStr(s) == [i \in 1..Len(s) |-> Lower(s[i])]

\* str.find(c, start): the least index >= start holding c, 0 when there is none
Find(s, c, start) ==
    LET I == {i \in start..Len(s) : s[i] = c}
    IN IF I = {} THEN 0 ELSE CHOOSE i \in I : \A j \in I : i <= j

\* s[:n] and s[n:], with Python's clipping of n to the length
Take(s, n) == SubSeq(s, 1, IF n < Len(s) THEN n ELSE Len(s))
Drop(s, n) == SubSeq(s, (IF n < Len(s) THEN n ELSE Len(s)) + 1, Len(s))

EndsWithSlash(s) == Len(s) > 0 /\ s[Len(s)] = "/"

---------------------------------------------------------------------------
(* urllib.parse, as daily_scan.normalize_url uses it *)

scheme_chars == Range(UpperAlpha) \cup Range(LowerAlpha) \cup Range(DigitChars) \cup {"+", "-", "."}

uses_netloc ==
  {<<>>,
   <<"f", "t", "p">>,
   <<"h", "t", "t", "p">>,
   <<"g", "o", "p", "h", "e", "r">>,
   <<"n", "n", "t", "p">>,
   <<"t", "e", "l", "n", "e", "t">>,
   <<"i", "m", "a", "p">>,
   <<"w", "a", "i", "s">>,
   <<"f", "i", "l", "e">>,
   <<"m", "m", "s">>,
   <<"h", "t", "t", "p", "s">>,
   <<"s", "h", "t", "t", "p">>,
   <<"s", "n", "e", "w", "s">>,
   <<"p", "r", "o", "s", "p", "e", "r", "o">>,
   <<"r", "t", "s", "p">>,
   <<"r", "t", "s", "p", "s">>,
   <<"r", "t", "s", "p", "u">>,
   <<"r", "s", "y", "n", "c">>,
   <<"s", "v", "n">>,
   <<"s", "v", "n", "+", "s", "s", "h">>,
   <<"s", "f", "t", "p">>,
   <<"n", "f", "s">>,
   <<"g", "i", "t">>,
   <<"g", "i", "t", "+", "s", "s", "h">>,
   <<"w", "s">>,
   <<"w", "s", "s">>}

\* urlsplit, the scheme: the text before the first ':' when it starts with
\* a letter and holds scheme characters only. Returns <<scheme, rest>>.
SplitScheme(u) ==
    LET i == Find(u, ":", 1)
    IN IF /\ i > 1
          /\ IsAlpha(u[1])
          /\ \A k \in 1..(i - 1) : u[k] \in scheme_chars
       THEN <<LowerStr(Take(u, i - 1)), Drop(u, i)>>
       ELSE <<<<>>, u>>

\* _splitnetloc(url, 2): the position of the first of '/?#' after the '//'
NetlocEnd(r) ==
    LET D == {k \in 3..Len(r) : r[k] \in {"/", "?", "#"}}
    IN IF D = {} THEN Len(r) + 1 ELSE CHOOSE k \in D : \A j \in D : k <= j

\* urlsplit, the netloc: what follows a leading '//'. Returns <<netloc, rest>>.
SplitNetloc(r) ==
    IF Take(r, 2) = <<"/", "/">>
    THEN <<SubSeq(r, 3, NetlocEnd(r) - 1), SubSeq(r, NetlocEnd(r), Len(r))>>
    ELSE <<<<>>, r>>

\* url.split(c, 1) when c is in url. Returns <<before, after>>.
SplitAt(r, c) ==
    LET k == Find(r, c, 1)
    IN IF k > 0 THEN <<Take(r, k - 1), Drop(r, k)>> ELSE <<r, <<>>>>

\* urlsplit(u)
urlsplit(u) ==
    LET s == SplitScheme(u)
        n == SplitNetloc(s[2])
        f == SplitAt(n[2], "#")
        q == SplitAt(f[1], "?")
    IN [scheme |-> s[1], netloc |-> n[1], path |-> q[1],
        query |-> q[2], fragment |-> f[2]]

\* urlunsplit, the first step: '//' + netloc + url when there is a netloc or
\* the scheme takes one
WithNetloc(scheme, netloc, url) ==
    IF \/ netloc # <<>>
       \/ (scheme # <<>> /\ scheme \in uses_netloc /\ Take(url, 2) # <<"/", "/">>)
    THEN <<"/", "/">> \o netloc
         \o (IF url # <<>> /\ url[1] # "/" THEN <<"/">> \o url ELSE url)
    ELSE url

\* urlunsplit((scheme, netloc, url, query, fragment))
urlunsplit(scheme, netloc, url, query, fragment) ==
    (IF scheme # <<>> THEN scheme \o <<":">> ELSE <<>>)
    \o WithNetloc(scheme, netloc, url)
    \o (IF query # <<>> THEN <<"?">> \o query ELSE <<>>)
    \o (IF fragment # <<>> THEN <<"#">> \o fragment ELSE <<>>)

\* path[:-1] when the path ends in '/' and is not the root
StripSlash(path) ==
    IF EndsWithSlash(path) /\ path # <<"/">> THEN Take(path, Len(path) - 1) ELSE path

\* parts.path or "/"
PathOrRoot(path) == IF path # <<>> THEN path ELSE <<"/">>

Https == <<"h", "t", "t", "p", "s">>

\* (parts.scheme or "https").lower()
SchemeOrHttps(scheme) == LowerStr(IF scheme # <<>> THEN scheme ELSE Https)

\* A variant that keeps the host's letter case.
normalize_url_keep_host_case(u) ==
    LET parts == urlsplit(u)
    IN urlunsplit(SchemeOrHttps(parts.scheme), parts.netloc,
                  StripSlash(PathOrRoot(parts.path)), <<>>, <<>>)

\* A variant that keeps the query string.
normalize_url_keep_query(u) ==
    LET parts == urlsplit(u)
    IN urlunsplit(SchemeOrHttps(parts.scheme), LowerStr(parts.netloc),
                  StripSlash(PathOrRoot(parts.path)), parts.query, <<>>)

\* daily_scan.normalize_url: lower-case scheme and host, drop query and
\* fragment, remove one trailing slash except on the root path.
normalize_url(u) ==
    LET parts == urlsplit(u)
    IN urlunsplit(SchemeOrHttps(parts.scheme), LowerStr(parts.netloc),
                  StripSlash(PathOrRoot(parts.path)), <<>>, <<>>)

\* daily_scan.make_id: the string that is hashed, f"{company}||{normalize_url(url)}".
\* sha256 is taken as injective, so the id is the hashed string itself.
make_id(company, url) == company \o <<"|", "|">> \o normalize_url(url)

---------------------------------------------------------------------------
(* More of str, as the email path uses it *)

\* str.upper() on one character, and str.upper()
UpperOf ==
    ("a" :> "A") @@ ("b" :> "B") @@ ("c" :> "C") @@ ("d" :> "D") @@ ("e" :> "E") @@ ("f" :> "F") @@
    ("g" :> "G") @@ ("h" :> "H") @@ ("i" :> "I") @@ ("j" :> "J") @@ ("k" :> "K") @@ ("l" :> "L") @@
    ("m" :> "M") @@ ("n" :> "N") @@ ("o" :> "O") @@ ("p" :> "P") @@ ("q" :> "Q") @@ ("r" :> "R") @@
    ("s" :> "S") @@ ("t" :> "T") @@ ("u" :> "U") @@ ("v" :> "V") @@ ("w" :> "W") @@ ("x" :> "X") @@
    ("y" :> "Y") @@ ("z" :> "Z")

Upper(c) == IF c \in DOMAIN UpperOf THEN UpperOf[c] ELSE c

UpperStr(s) == [i \in 1..Len(s) |-> Upper(s[i])]

\* str.lstrip(chars), str.rstrip(chars), str.strip(chars)
RECURSIVE LStripChars(_, _)
LStripChars(s, chars) ==
    IF s # <<>> /\ s[1] \in chars THEN LStripChars(Tail(s), chars) ELSE s

RECURSIVE RStripChars(_, _)
RStripChars(s, chars) ==
    IF s # <<>> /\ s[Len(s)] \in chars
    THEN RStripChars(SubSeq(s, 1, Len(s) - 1), chars)
    ELSE s

StripChars(s, chars) == RStripChars(LStripChars(s, chars), chars)

Whitespace == {" ", "\t", "\n", "\r"}

\* str.strip()
Strip(s) == StripChars(s, Whitespace)

StartsWith(s, prefix) == Take(s, Len(prefix)) = prefix

\* sub in s
Contains(s, sub) ==
    \E i \in 0..(Len(s) - Len(sub)) : SubSeq(s, i + 1, i + Len(sub)) = sub

\* str.replace(old, new), old not empty
RECURSIVE Replace(_, _, _)
Replace(s, old, new) ==
    IF Len(s) < Len(old) THEN s
    ELSE IF StartsWith(s, old)
         THEN new \o Replace(Drop(s, Len(old)), old, new)
         ELSE <<s[1]>> \o Replace(Tail(s), old, new)

\* str.split(): the words between runs of whitespace
RECURSIVE Split(_)
Split(s) ==
    IF s = <<>> THEN <<>>
    ELSE IF s[1] \in Whitespace THEN Split(Tail(s))
    ELSE LET W == {k \in 1..Len(s) : s[k] \in Whitespace}
             k == IF W = {} THEN Len(s) + 1 ELSE CHOOSE i \in W : \A j \in W : i <= j
         IN <<Take(s, k - 1)>> \o Split(Drop(s, k - 1))

\* pathlib.Path.stem: the file name without its last suffix
Stem(name) ==
    LET D == {k \in 2..Len(name) : name[k] = "."}
    IN IF D = {} \/ name[Len(name)] = "." THEN name
       ELSE Take(name, (CHOOSE k \in D : \A j \in D : j <= k) - 1)

---------------------------------------------------------------------------
(* The email path: configuration, payloads, clock readings *)

Acme == <<"A", "c", "m", "e">>
BetaEU == <<"B", "e", "t", "a", " ", "(", "E", "U", ")">>

\* config/monitors.yaml, the competitors list
Competitors ==
    <<[name |-> Acme,
       start_urls |-> <<<<"h", "t", "t", "p", "s", ":", "/", "/", "w", "w", "w", ".", "a", "c", "m", "e", ".", "i", "o", "/", "b", "l", "o", "g">>>>],
      [name |-> BetaEU,
       start_urls |-> <<<<"h", "t", "t", "p", ":", "/", "/", "b", "e", "t", "a", ".", "e", "u">>>>]>>

\* email_matcher.get_competitor_names
get_competitor_names ==
    [i \in 1..Len(Competitors) |-> Competitors[i].name]

Unmatched == <<"u", "n", "m", "a", "t", "c", "h", "e", "d">>
NewsletterUnmatched == <<"N", "e", "w", "s", "l", "e", "t", "t", "e", "r", " ", "(", "U", "n", "m", "a", "t", "c", "h", "e", "d", ")">>
Unknown == <<"u", "n", "k", "n", "o", "w", "n">>
NoSubject == <<"(", "N", "o", " ", "S", "u", "b", "j", "e", "c", "t", ")">>
EmailScheme == <<"e", "m", "a", "i", "l", ":", "/", "/">>
JsonSuffix == <<".", "j", "s", "o", "n">>

\* What CloudMailin posts: the message-id header (empty when the mail has
\* none), the envelope sender and the subject header.
MailWithId ==
    [message_id |-> <<"<", "m", "@", "x", ">">>,
     from |-> <<"n", "@", "a", "c", "m", "e", ".", "i", "o">>,
     subject |-> <<"H", "i">>]
MailWithoutId ==
    [message_id |-> <<>>,
     from |-> <<"n", "@", "z", "e", "d", ".", "i", "o">>,
     subject |-> <<>>]
Mails == {MailWithId, MailWithoutId}

\* Readings of the wall clock, in microseconds after 2026-01-01T00:00:00Z.
\* datetime.now(UTC) is neither strictly increasing nor monotonic.
Clock == 1..MaxClock

\* datetime.strftime("%Y%m%d_%H%M%S_%f")
strftime(t) ==
    <<"2", "0", "2", "6", "0", "1", "0", "1", "_", "0", "0", "0", "0", "0", "0", "_", "0", "0", "0", "0", "0">>
    \o <<DigitChars[t + 1]>>

\* datetime.isoformat()
isoformat(t) ==
    <<"2", "0", "2", "6", "-", "0", "1", "-", "0", "1", "T", "0", "0", ":", "0", "0", ":", "0", "0", ".", "0", "0", "0", "0", "0">>
    \o <<DigitChars[t + 1]>> \o <<"+", "0", "0", ":", "0", "0">>

UnsafeChars == {"<", ">", ":", "\"", "/", "\\", "|", "?", "*", "\t", "\n", "\r"}

\* webhook_server.sanitize_filename
sanitize_filename(s) ==
    Take([i \in 1..Len(s) |-> IF s[i] \in UnsafeChars THEN "_" ELSE s[i]], 100)

\* receive_email, lines 366-381: data/emails/[message-id]-[timestamp].json
Filename(message_id, t) ==
    (IF message_id # <<>>
     THEN sanitize_filename(Replace(StripChars(message_id, {"<", ">"}),
                                    <<"@">>, <<"_", "a", "t", "_">>))
     ELSE Unknown)
    \o <<"-">> \o strftime(t) \o JsonSuffix

NoPayload == [mail |-> [message_id |-> <<>>, from |-> <<>>, subject |-> <<>>],
              received_at |-> <<>>]

\* The fields both process_email_immediately and extract_email_content
\* take from a stored payload
Subject(payload) ==
    IF payload.mail.subject # <<>> THEN payload.mail.subject ELSE NoSubject
FromAddr(payload) ==
    IF payload.mail.from # <<>> THEN payload.mail.from ELSE Unknown
MessageId(payload) ==
    IF payload.mail.message_id # <<>>
    THEN payload.mail.message_id
    ELSE payload.received_at

\* f"email://{filepath.stem}"
EmailUrl(name) == EmailScheme \o Stem(name)

\* webhook_server.make_id and process_emails.make_id: the string that is
\* hashed, f"{company}||email||{message_id}"
webhook_make_id(company, message_id) ==
    company \o <<"|", "|", "e", "m", "a", "i", "l", "|", "|">> \o message_id
process_emails_make_id(company, message_id) ==
    company \o <<"|", "|", "e", "m", "a", "i", "l", "|", "|">> \o message_id

\* webhook_server.load_existing_ids and process_emails.load_existing_ids
webhook_load_existing_ids(ledger) == {ledger[i].id : i \in 1..Len(ledger)}
process_emails_load_existing_ids(ledger) == {ledger[i].id : i \in 1..Len(ledger)}

---------------------------------------------------------------------------
(* The oracle and the two matchers *)

\* What the chat-completion call does: it raises, or it returns a text.
Raised == [raised |-> TRUE, content |-> <<>>]
Answer(text) == [raised |-> FALSE, content |-> text]

MatchAnswers ==
    {Raised,
     Answer(<<"N", "O", "N", "E">>),
     Answer(<<"A", "c", "m", "e">>),
     Answer(<<" ", "a", "c", "m", "e", "\n">>),
     Answer(<<"b", "e", "t", "a">>),
     Answer(<<>>),
     Answer(<<"Z", "e", "d">>)}

QualityAnswers ==
    {Raised,
     Answer(<<"A", "C", "C", "E", "P", "T">>),
     Answer(<<"r", "e", "j", "e", "c", "t">>)}

\* The first name of names for which P holds, <<>> (None) when there is none
FirstName(names, P(_)) ==
    LET I == {i \in 1..Len(names) : P(names[i])}
    IN IF I = {} THEN <<>> ELSE names[CHOOSE i \in I : \A j \in I : i <= j]

\* match_email_to_competitor, lines 355-372: the answer checked against the
\* configured names
ValidateAnswer(names, result) ==
    LET Exact(name) == LowerStr(name) = LowerStr(result)
        Partial(name) == \/ Contains(LowerStr(result), LowerStr(name))
                         \/ Contains(LowerStr(name), LowerStr(result))
    IN IF UpperStr(result) = <<"N", "O", "N", "E">> THEN <<>>
       ELSE IF FirstName(names, Exact) # <<>> THEN FirstName(names, Exact)
       ELSE FirstName(names, Partial)

\* A variant that finds no assignment
get_sender_assigned_company_unassigned(df, from_address) == <<>>

\* email_matcher.get_sender_assigned_company
get_sender_assigned_company(df, from_address) ==
    LET I == {i \in 1..Len(df) : df[i].from_address = from_address}
        assigned == df[CHOOSE i \in I : \A j \in I : i <= j].assigned_company
    IN IF I # {} /\ Strip(assigned) # <<>> /\ LowerStr(assigned) # <<"n", "a", "n">>
       THEN Strip(assigned)
       ELSE <<>>

\* match_email_to_competitor consults the oracle
ConsultsMatcher(df, from_address) ==
    get_sender_assigned_company(df, from_address) = <<>> /\ get_competitor_names # <<>>

\* email_matcher.match_email_to_competitor, with the senders ledger it
\* reads and the oracle's answer; <<>> is None
match_email_to_competitor(df, from_address, answer) ==
    IF get_sender_assigned_company(df, from_address) # <<>>
    THEN get_sender_assigned_company(df, from_address)
    ELSE IF get_competitor_names = <<>> \/ answer.raised THEN <<>>
    ELSE ValidateAnswer(get_competitor_names, Strip(answer.content))

\* A variant that rejects when the call raises
check_email_quality_closed(answer) ==
    IF answer.raised THEN FALSE
    ELSE Contains(UpperStr(Strip(answer.content)), <<"A", "C", "C", "E", "P", "T">>)

\* email_matcher.check_email_quality
check_email_quality(answer) ==
    IF answer.raised THEN TRUE
    ELSE Contains(UpperStr(Strip(answer.content)), <<"A", "C", "C", "E", "P", "T">>)

\* name.lower().replace("(", " ").replace(")", " ").split()
Keywords(name) ==
    Split(Replace(Replace(LowerStr(name), <<"(">>, <<" ">>), <<")">>, <<" ">>))

\* re.search(r"https?://(?:www\.)?([^/]+)", url).group(1), for a url that
\* starts with its scheme; <<>> when the pattern does not match
DomainGroup(url) ==
    LET rest == IF StartsWith(url, <<"h", "t", "t", "p", ":", "/", "/">>) THEN Drop(url, 7)
                ELSE IF StartsWith(url, <<"h", "t", "t", "p", "s", ":", "/", "/">>) THEN Drop(url, 8)
                ELSE <<>>
    IN IF StartsWith(rest, <<"w", "w", "w", ".">>) /\ SplitAt(Drop(rest, 4), "/")[1] # <<>>
       THEN SplitAt(Drop(rest, 4), "/")[1]
       ELSE SplitAt(rest, "/")[1]

\* domain_match.group(1).lower().split(".")[0]
DomainName(url) == SplitAt(LowerStr(DomainGroup(url)), ".")[1]

\* process_emails.match_competitor, one competitor of the loop
CompetitorHit(comp, from_lower, subject_lower) ==
    \/ \E i \in 1..Len(Keywords(comp.name)) :
          /\ Len(Keywords(comp.name)[i]) > 2
          /\ \/ Contains(from_lower, Keywords(comp.name)[i])
             \/ Contains(subject_lower, Keywords(comp.name)[i])
    \/ \E i \in 1..Len(comp.start_urls) :
          /\ DomainGroup(comp.start_urls[i]) # <<>>
          /\ Contains(from_lower, DomainName(comp.start_urls[i]))

\* process_emails.match_competitor; <<>> is None
match_competitor(from_addr, subject) ==
    LET I == {i \in 1..Len(Competitors) :
                Competitors[i].name # <<>>
                /\ CompetitorHit(Competitors[i], LowerStr(from_addr), LowerStr(subject))}
    IN IF I = {} THEN <<>> ELSE Competitors[CHOOSE i \in I : \A j \in I : i <= j].name

NoRow == [id |-> <<>>, company |-> <<>>, source_url |-> <<>>]

\* process_emails.process_email_file on a payload that was read; NoRow is None
process_email_file(name, payload, existing_ids) ==
    LET matched == match_competitor(FromAddr(payload), Subject(payload))
        company == IF matched # <<>> THEN matched ELSE NewsletterUnmatched
        row_id == process_emails_make_id(company, MessageId(payload))
    IN IF row_id \in existing_ids
       THEN NoRow
       ELSE [id |-> row_id, company |-> company, source_url |-> EmailUrl(name)]

---------------------------------------------------------------------------
(* The ledgers emails.csv and email_senders.csv, and the payload files *)

HasEmail(df, json_file) == \E i \in 1..Len(df) : df[i].json_file = json_file

HasSender(df, from_address) == \E i \in 1..Len(df) : df[i].from_address = from_address

\* save_email_record, as record_email_received calls it
save_email_record(ledger, json_file, from_address) ==
    Append(ledger, [json_file |-> json_file, from_address |-> from_address,
                    matched_company |-> Unmatched, injected |-> "False",
                    processed_at |-> "", status |-> "inbox"])

\* df.loc[df["json_file"] == json_file, column] = value, for the columns the
\* stages write; of processed_at only whether it is filled is kept
SetMatchedCompany(df, json_file, company) ==
    [i \in 1..Len(df) |-> IF df[i].json_file = json_file
                          THEN [df[i] EXCEPT !.matched_company = company,
                                             !.processed_at = "now"]
                          ELSE df[i]]
SetInjected(df, json_file) ==
    [i \in 1..Len(df) |-> IF df[i].json_file = json_file
                          THEN [df[i] EXCEPT !.injected = "True"] ELSE df[i]]
SetDeleted(df, json_file) ==
    [i \in 1..Len(df) |-> IF df[i].json_file = json_file
                          THEN [df[i] EXCEPT !.status = "deleted"] ELSE df[i]]

FirstSender(df, from_address) ==
    CHOOSE i \in 1..Len(df) :
        /\ df[i].from_address = from_address
        /\ \A j \in 1..Len(df) : df[j].from_address = from_address => i <= j

\* update_sender_stats, lines 257-274, on the frame it loaded
update_sender_stats(df, from_address, received, processed, injected) ==
    IF HasSender(df, from_address)
    THEN [df EXCEPT ![FirstSender(df, from_address)] =
            [@ EXCEPT !.emails_received = @ + received,
                      !.emails_processed = @ + processed,
                      !.emails_injected = @ + injected]]
    ELSE Append(df, [from_address |-> from_address, emails_received |-> received,
                     emails_processed |-> processed, emails_injected |-> injected,
                     assigned_company |-> <<>>])

Monus(a, b) == IF a > b THEN a - b ELSE 0

\* _decrement_sender_stats, lines 543-552, on the frame it loaded
decrement_sender_stats(df, from_address, received, processed, injected) ==
    [df EXCEPT ![FirstSender(df, from_address)] =
        [@ EXCEPT !.emails_received = Monus(@, received),
                  !.emails_processed = Monus(@, processed),
                  !.emails_injected = Monus(@, injected)]]

\* set_sender_assigned_company, lines 285-297, on the frame it loaded
set_sender_assigned_company(df, from_address, company) ==
    IF HasSender(df, from_address)
    THEN [i \in 1..Len(df) |-> IF df[i].from_address = from_address
                               THEN [df[i] EXCEPT !.assigned_company = company]
                               ELSE df[i]]
    ELSE Append(df, [from_address |-> from_address, emails_received |-> 0,
                     emails_processed |-> 0, emails_injected |-> 0,
                     assigned_company |-> company])

\* delete_sender, line 579, on the frame it loaded
WithoutSender(df, from_address) ==
    SelectSeq(df, LAMBDA row : row.from_address # from_address)

\* delete_sender, lines 572-574: the sender's row carries an assignment
HasAssignment(df, from_address) ==
    LET assigned == df[FirstSender(df, from_address)].assigned_company
    IN Strip(assigned) # <<>> /\ LowerStr(assigned) # <<"n", "a", "n">>

\* The code points of the characters of the addresses, in increasing order
CodePointOrder ==
    <<"-", ".">> \o DigitChars \o <<"@">> \o UpperAlpha \o <<"_">> \o LowerAlpha

CodePoint(c) == CHOOSE k \in 1..Len(CodePointOrder) : CodePointOrder[k] = c

\* a < b on str
RECURSIVE StrLess(_, _)
StrLess(a, b) ==
    IF b = <<>> THEN FALSE
    ELSE IF a = <<>> THEN TRUE
    ELSE IF Head(a) # Head(b) THEN CodePoint(Head(a)) < CodePoint(Head(b))
    ELSE StrLess(Tail(a), Tail(b))

\* The keys of a groupby, which pandas yields in increasing order
SortedKeys(S) ==
    CHOOSE s \in [1..Cardinality(S) -> S] :
        \A i, j \in 1..Cardinality(S) : i < j => StrLess(s[i], s[j])

\* rebuild_sender_stats, lines 494-504: the inbox records of one sender
InboxOf(df, from_address) ==
    {i \in 1..Len(df) : df[i].from_address = from_address /\ df[i].status # "deleted"}
ProcessedOf(df, from_address) ==
    {i \in InboxOf(df, from_address) : df[i].matched_company # Unmatched}
InjectedOf(df, from_address) ==
    {i \in InboxOf(df, from_address) : df[i].injected = "True"}

\* rebuild_sender_stats, lines 494-518, on the two frames it loaded: one row
\* for every sender of an inbox record, with the assignment the sender had
rebuild_sender_stats(emails_df, existing_df) ==
    LET keys == SortedKeys({emails_df[i].from_address :
                              i \in {k \in 1..Len(emails_df) : emails_df[k].status # "deleted"}})
    IN [k \in 1..Len(keys) |->
          [from_address |-> keys[k],
           emails_received |-> Cardinality(InboxOf(emails_df, keys[k])),
           emails_processed |-> Cardinality(ProcessedOf(emails_df, keys[k])),
           emails_injected |-> Cardinality(InjectedOf(emails_df, keys[k])),
           assigned_company |-> IF HasSender(existing_df, keys[k])
                                THEN existing_df[CHOOSE i \in 1..Len(existing_df) :
                                        /\ existing_df[i].from_address = keys[k]
                                        /\ \A j \in (i + 1)..Len(existing_df) :
                                              existing_df[j].from_address # keys[k]].assigned_company
                                ELSE <<>>]]

\* The directories data/emails, data/emails/processed, data/emails/deleted
InDir(dir, name) == \E f \in files : f.dir = dir /\ f.name = name

ReadFile(dir, name) == (CHOOSE f \in files : f.dir = dir /\ f.name = name).payload

\* open(path, "w") and json.dump
WriteFile(fs, dir, name, payload) ==
    {f \in fs : ~(f.dir = dir /\ f.name = name)}
    \cup {[dir |-> dir, name |-> name, payload |-> payload]}

\* Path.rename and shutil.move of a file that exists; a file of that name
\* in the target directory is replaced
MoveFile(fs, from, to, name) ==
    {f \in fs : ~(f.name = name /\ f.dir \in {from, to})}
    \cup {[dir |-> to, name |-> name,
           payload |-> (CHOOSE f \in fs : f.dir = from /\ f.name = name).payload]}

\* list(EMAILS_DIR.glob("*.json")), in any of the orders the directory
\* may be listed in
GlobOrders ==
    LET S == {f.name : f \in {g \in files : g.dir = "emails"}}
    IN {s \in [1..Cardinality(S) -> S] : Range(s) = S}

---------------------------------------------------------------------------
(* app/classify.py *)

Other == <<"O", "t", "h", "e", "r">>
ImpactHigh == <<"H", "i", "g", "h">>
ImpactMedium == <<"M", "e", "d", "i", "u", "m">>
ImpactLow == <<"L", "o", "w">>
Impacts == {ImpactHigh, ImpactMedium, ImpactLow}

PricingPlans == <<"P", "r", "i", "c", "i", "n", "g", "/", "P", "l", "a", "n", "s">>
CompanyNews == <<"C", "o", "m", "p", "a", "n", "y", " ", "N", "e", "w", "s">>

\* config/monitors.yaml, classification.categories
ConfigCategories == <<PricingPlans, CompanyNews>>

\* classify.get_categories: "Other" is appended when the list lacks it
get_categories ==
    IF Other \in Range(ConfigCategories)
    THEN ConfigCategories
    ELSE Append(ConfigCategories, Other)

\* str.title(): a letter that follows a letter is lowered, any other letter
\* is raised
Title(s) ==
    [i \in 1..Len(s) |-> IF i > 1 /\ IsAlpha(s[i - 1]) THEN Lower(s[i]) ELSE Upper(s[i])]

\* What the chat-completion call of classify_article does: it raises, or it
\* returns a content that json.loads rejects or turns into something that
\* is not an object, or a JSON object with some of the keys
ClassifierRaised == [raised |-> TRUE, object |-> FALSE, data |-> <<>>]
NotAnObject == [raised |-> FALSE, object |-> FALSE, data |-> <<>>]
JsonObject(data) == [raised |-> FALSE, object |-> TRUE, data |-> data]

SummaryText == <<"S">>

ClassifierResponses ==
    {ClassifierRaised,
     NotAnObject,
     JsonObject([summary |-> SummaryText, category |-> PricingPlans, impact |-> ImpactHigh]),
     JsonObject([summary |-> SummaryText, category |-> <<"B", "o", "g", "u", "s">>, impact |-> <<"C", "r", "i", "t", "i", "c", "a", "l">>]),
     JsonObject([category |-> <<" ", "C", "o", "m", "p", "a", "n", "y", " ", "N", "e", "w", "s">>, impact |-> <<"h", "i", "g", "h">>])}

\* dict.get(key, default) on a JSON object whose values are strings
Get(data, key, default) == IF key \in DOMAIN data THEN data[key] ELSE default

Fallback == [summary |-> <<>>, category |-> Other, impact |-> ImpactLow]

\* An exception that leaves classify_article
Propagated == [summary |-> <<>>, category |-> <<>>, impact |-> <<>>]

\* A variant without the coercion of lines 140-143
classify_article_unchecked(title, body, response) ==
    IF Take(Strip(body), 4000) = <<>> /\ Strip(title) = <<>> THEN Fallback
    ELSE IF response.raised \/ ~response.object THEN Fallback
    ELSE [summary |-> Strip(Get(response.data, "summary", <<>>)),
          category |-> Strip(Get(response.data, "category", Other)),
          impact |-> Title(Strip(Get(response.data, "impact", <<>>)))]

\* A variant without the except branch of lines 146-148
classify_article_raising(title, body, response) ==
    IF Take(Strip(body), 4000) = <<>> /\ Strip(title) = <<>> THEN Fallback
    ELSE IF response.raised \/ ~response.object THEN Propagated
    ELSE LET category == Strip(Get(response.data, "category", Other))
             impact == Title(Strip(Get(response.data, "impact", <<>>)))
         IN [summary |-> Strip(Get(response.data, "summary", <<>>)),
             category |-> IF category \in Range(get_categories) THEN category ELSE Other,
             impact |-> IF impact \in Impacts THEN impact ELSE ImpactLow]

\* classify.classify_article, with what the classifier does when it is
\* called
classify_article(title, body, response) ==
    IF Take(Strip(body), 4000) = <<>> /\ Strip(title) = <<>> THEN Fallback
    ELSE IF response.raised \/ ~response.object THEN Fallback
    ELSE LET category == Strip(Get(response.data, "category", Other))
             impact == Title(Strip(Get(response.data, "impact", <<>>)))
         IN [summary |-> Strip(Get(response.data, "summary", <<>>)),
             category |-> IF category \in Range(get_categories) THEN category ELSE Other,
             impact |-> IF impact \in Impacts THEN impact ELSE ImpactLow]

\* classify_article reaches the classifier
CallsClassifier(title, body) == ~(Take(Strip(body), 4000) = <<>> /\ Strip(title) = <<>>)

---------------------------------------------------------------------------
(* jobs/enrich_updates.py *)

Nan == <<"n", "a", "n">>

\* pd.read_csv followed by astype(str): an empty cell is NaN and reads "nan"
FromCsv(cell) == IF cell = <<>> THEN Nan ELSE cell

\* enrich_updates.load_raw: the string columns of updates.csv
load_raw(ledger) ==
    [i \in 1..Len(ledger) |->
        [company |-> FromCsv(ledger[i].company),
         source_url |-> FromCsv(ledger[i].source_url),
         title |-> FromCsv(ledger[i].title),
         clean_text |-> FromCsv(ledger[i].clean_text)]]

\* enrich_updates.load_enriched_existing
load_enriched_existing(file) ==
    [i \in 1..Len(file) |->
        [company |-> FromCsv(file[i].company),
         source_url |-> FromCsv(file[i].source_url),
         summary |-> FromCsv(file[i].summary),
         category |-> FromCsv(file[i].category),
         impact |-> FromCsv(file[i].impact)]]

\* merged[c].where(merged[c].str.strip() != "", merged[old])
KeepCurrent(current, old) == IF Strip(current) # <<>> THEN current ELSE old

\* The rows a left join on (company, source_url) gives for one fresh row:
\* one for each existing row of that key, or one without a match, whose old
\* columns are NaN and read "nan"
JoinRow(existing, row) ==
    LET M == SelectSeq(existing, LAMBDA e : e.company = row.company
                                            /\ e.source_url = row.source_url)
        old == IF M = <<>> THEN <<[summary |-> Nan, category |-> Nan, impact |-> Nan]>> ELSE M
    IN [k \in 1..Len(old) |->
          [company |-> row.company, source_url |-> row.source_url,
           title |-> row.title, clean_text |-> row.clean_text,
           summary |-> KeepCurrent(<<>>, old[k].summary),
           category |-> KeepCurrent(<<>>, old[k].category),
           impact |-> KeepCurrent(<<>>, old[k].impact)]]

\* enrich_updates.merge_keep_existing; fresh comes from load_raw and has no
\* enrichment columns, which _ensure_str_cols adds as ""
RECURSIVE merge_keep_existing(_, _)
merge_keep_existing(existing, fresh) ==
    IF fresh = <<>> THEN <<>>
    ELSE JoinRow(existing, Head(fresh)) \o merge_keep_existing(existing, Tail(fresh))

NanLike == {<<"n", "a", "n">>, <<"N", "a", "N">>, <<"N", "o", "n", "e">>, <<"N", "A">>}

\* enrich_missing, line 116
BlankNan(cell) == IF cell \in NanLike THEN <<>> ELSE cell

\* enrich_missing, lines 118-119
is_blank(cell) ==
    Strip(cell) = <<>> \/ LowerStr(cell) \in {<<"n", "a", "n">>, <<"n", "o", "n", "e">>, <<"n", "a">>}

\* enrich_missing, lines 112-116
Blanked(df) ==
    [i \in 1..Len(df) |-> [df[i] EXCEPT !.summary = BlankNan(@),
                                        !.category = BlankNan(@),
                                        !.impact = BlankNan(@)]]

\* enrich_missing, lines 121-122
Todo(df) ==
    SelectSeq(df, LAMBDA row : is_blank(row.summary) \/ is_blank(row.category)
                               \/ is_blank(row.impact))

\* enrich_missing, lines 137-139
Enriched(row, out) ==
    [row EXCEPT !.summary = Strip(out.summary),
                !.category = Strip(out.category),
                !.impact = Title(Strip(out.impact))]

\* enrich_missing, lines 155-158: df.update on the index (company,
\* source_url), for frames whose keys are not repeated
Update(df, enriched_df) ==
    [i \in 1..Len(df) |->
        LET M == SelectSeq(enriched_df, LAMBDA e : e.company = df[i].company
                                                   /\ e.source_url = df[i].source_url)
        IN IF M = <<>> THEN df[i] ELSE M[1]]

---------------------------------------------------------------------------
(* Inputs: URLs are generated from their written parts and handed to the    *)
(* functions as plain strings.                                             *)

Url(s, h, p, q, f) == [scheme |-> s, host |-> h, path |-> p, query |-> q, frag |-> f]

\* The raw URL string of a generated URL
Str(url) == url.scheme \o url.host \o url.path \o url.query \o url.frag

RECURSIVE Slashes(_)
Slashes(n) == IF n = 0 THEN <<>> ELSE <<"/">> \o Slashes(n - 1)

HttpLower == <<"h", "t", "t", "p", ":">>
HttpUpper == <<"H", "T", "T", "P", ":">>
HostLowerX == <<"/", "/", "x">>
HostUpperX == <<"/", "/", "X">>
PathA == <<"/", "a">>
PathUpperA == <<"/", "A">>
PathWithSeparator == <<"/", "a", "|", "|", "h", "t", "t", "p", ":", "/", "/", "x", "/", "a">>
QueryQ == <<"?", "q">>
QueryR == <<"?", "r">>
FragF == <<"#", "f">>

\* HTTP://Example.com/Blog/ , http://example.com/blog , http://example.com/Blog
ExampleUpper == Url(HttpUpper, <<"/", "/", "E", "x", "a", "m", "p", "l", "e", ".", "c", "o", "m">>, <<"/", "B", "l", "o", "g", "/">>, <<>>, <<>>)
ExampleLower == Url(HttpLower, <<"/", "/", "e", "x", "a", "m", "p", "l", "e", ".", "c", "o", "m">>, <<"/", "b", "l", "o", "g">>, <<>>, <<>>)
ExampleLowerHost == Url(HttpLower, <<"/", "/", "e", "x", "a", "m", "p", "l", "e", ".", "c", "o", "m">>, <<"/", "B", "l", "o", "g">>, <<>>, <<>>)

CasePaths == {<<>>, PathUpperA} \cup {PathA \o Slashes(n) : n \in 0..MaxSlashes}

Urls ==
    {Url(s, h, p, <<>>, <<>>) : s \in {HttpLower, HttpUpper, <<>>},
                                 h \in {HostLowerX, HostUpperX}, p \in CasePaths}
    \cup {Url(HttpLower, HostLowerX, p, q, f) :
            p \in {PathA, PathA \o <<"/">>}, q \in {QueryQ, QueryR}, f \in {<<>>, FragF}}
    \cup {Url(HttpLower, HostLowerX, PathA, <<>>, FragF),
          Url(HttpLower, HostLowerX, PathWithSeparator, <<>>, <<>>),
          ExampleUpper, ExampleLower, ExampleLowerHost}

CompanyC == <<"c">>
CompanyD == <<"d">>
CompanyWithSeparator == <<"c", "|", "|", "h", "t", "t", "p", ":", "/", "/", "x", "/", "a">>
Companies == {CompanyC, CompanyD, CompanyWithSeparator}

Inputs == [company : Companies, url : Urls]

---------------------------------------------------------------------------
(* SpecUrl: the identity functions applied to two inputs *)

FxIdle == [pc |-> "off", a |-> <<>>, b |-> <<>>, na |-> <<>>, nb |-> <<>>,
           nna |-> <<>>, nnb |-> <<>>, ida |-> <<>>, idb |-> <<>>]

ScanIdle == [pc |-> "idle", existing_ids |-> {}, seen_ids_this_run |-> {},
             new_rows |-> <<>>, yielded |-> {}, pages_processed |-> 0]

\* What is kept of a finished run: the pages crawl_all yielded, the rows it
\* appended, the ledger's row count after it, and whether the run before it
\* yielded the same pages (and that run's row count).
NoRun == [pages |-> {}, added |-> 0, after |-> 0, n |-> 0,
          samePagesAsPrev |-> FALSE, prevAfter |-> 0]

\* The email path at rest
\* Kept for the claims: absorbed, the stored emails whose run ended at
\* no-match or at a rejection by the quality gate; wrote, whether the stage
\* under way has written its Email Record; concurrent, whether a request
\* was received while a dashboard operation was under way; asked, what the
\* oracle did in the step just taken, when that step consulted it
WhIdle == [pc |-> "idle", json_file |-> <<>>, payload |-> NoPayload,
           existing_ids |-> {}, company |-> <<>>, stage |-> "none",
           df |-> <<>>, known |-> FALSE, oracle_calls |-> 0, deliveries |-> 0,
           absorbed |-> {}, wrote |-> FALSE, concurrent |-> FALSE,
           asked |-> <<>>]

BatchIdle == [pc |-> "idle", existing_ids |-> {}, email_files |-> <<>>,
              new_rows |-> <<>>, processed_files |-> <<>>, runs |-> 0]

\* concurrent is kept for the claims: whether an operation was started
\* while the webhook server was handling a request
DashIdle == [pc |-> "idle", json_file |-> <<>>, from_address |-> <<>>,
             was_processed |-> FALSE, was_injected |-> FALSE,
             company |-> <<>>, df |-> <<>>, emails_df |-> <<>>, ops |-> 0,
             concurrent |-> FALSE]

\* The enrichment job at rest. Kept for the claims: asked and out, what the
\* classifier did in the step just taken and what classify_article returned;
\* calls and failed, the classifier calls of the run and those of them that
\* failed
EnrichIdle == [pc |-> "idle", fresh |-> <<>>, df |-> <<>>, todo |-> <<>>,
               rows |-> <<>>, runs |-> 0, asked |-> <<>>, out |-> <<>>,
               calls |-> 0, failed |-> 0]

EnrichAtRest ==
    /\ enriched = <<>>
    /\ enrich = EnrichIdle

\* data/updates.csv.tmp is absent
NoTmp == [exists |-> FALSE, rows |-> <<>>]

Instances == 1..MaxInstances

\* An update_daily instance that has not started
UdIdle == [pc |-> "idle", cur |-> <<>>, new_df |-> <<>>, merged |-> <<>>, raw |-> <<>>]

\* append_updates.main at rest
ApIdle == [pc |-> "idle", base |-> <<>>, add |-> <<>>, merged |-> <<>>]

\* No crawl_competitor run. Kept for the claims: entered, popped and
\* fetched, the URLs in the order in which they were put into the queue,
\* taken from it and fetched; pages, the URLs of the Pages yielded; html and
\* new_links, the page fetch_html returned in the iteration just made and
\* the links this iteration put into the queue
CrawlIdle == [pc |-> "idle", start_urls |-> <<>>, max_pages_per_site |-> 0,
              follow_within_domain_only |-> TRUE, visited |-> {}, queue |-> <<>>,
              fetch_errors |-> 0, pages |-> <<>>, entered |-> <<>>, popped |-> <<>>,
              fetched |-> <<>>, html |-> <<>>, new_links |-> 0]

BgThreads == 1..MaxInjections

\* The webhook process before the first request: _enrichment_running, the
\* holder of _enrichment_lock (0 for none), the handler's position, the
\* emails injected and the threads started for them. Kept for the claims:
\* skipped and runs, the calls of run_enrichment_background that started no
\* thread and the runs of run_enrichment(); covered, the most rows of the
\* ledger a run has loaded; raised, whether the run of a thread raised
BgIdle == [running |-> FALSE, holder |-> 0, handler |-> "idle", received |-> 0,
           threads |-> [t \in BgThreads |-> [pc |-> "none", fresh |-> <<>>, raised |-> FALSE]],
           skipped |-> 0, runs |-> 0, covered |-> 0]

LaterAtRest ==
    /\ lock = FALSE
    /\ tmp = NoTmp
    /\ ud = [i \in Instances |-> UdIdle]
    /\ ap = ApIdle
    /\ crawl = CrawlIdle
    /\ bg = BgIdle

EmailIdle ==
    /\ emails = <<>>
    /\ senders = <<>>
    /\ files = {}
    /\ wh = WhIdle
    /\ batch = BatchIdle
    /\ dash = DashIdle

InitUrl ==
    /\ fx \in {[FxIdle EXCEPT !.pc = "in", !.a = a, !.b = b] : a \in Inputs, b \in Inputs}
    /\ updates = <<>>
    /\ scan = ScanIdle
    /\ lastRun = NoRun
    /\ crawled = {}
    /\ EmailIdle
    /\ EnrichAtRest
    /\ LaterAtRest

\* normalize_url on both inputs
Normalize ==
    /\ fx.pc = "in"
    /\ fx' = [fx EXCEPT !.pc = "norm",
                        !.na = normalize_url(Str(fx.a.url)),
                        !.nb = normalize_url(Str(fx.b.url))]
    /\ UNCHANGED <<updates, scan, lastRun, crawled, emailVars, enrichVars, laterVars>>

\* normalize_url on what normalize_url returned
Renormalize ==
    /\ fx.pc = "norm"
    /\ fx' = [fx EXCEPT !.pc = "renorm",
                        !.nna = normalize_url(fx.na),
                        !.nnb = normalize_url(fx.nb)]
    /\ UNCHANGED <<updates, scan, lastRun, crawled, emailVars, enrichVars, laterVars>>

\* make_id on both inputs
MakeId ==
    /\ fx.pc = "renorm"
    /\ fx' = [fx EXCEPT !.pc = "id",
                        !.ida = make_id(fx.a.company, Str(fx.a.url)),
                        !.idb = make_id(fx.b.company, Str(fx.b.url))]
    /\ UNCHANGED <<updates, scan, lastRun, crawled, emailVars, enrichVars, laterVars>>

NextUrl == Normalize \/ Renormalize \/ MakeId

SpecUrl == InitUrl /\ [][NextUrl]_vars

---------------------------------------------------------------------------
(* SpecScan: jobs/daily_scan.main, run after run, over the pages crawl_all  *)
(* yields. The ledger starts as the header-only file ensure_headers writes. *)

HttpsLower == <<"h", "t", "t", "p", "s", ":">>
HostXCom == <<"/", "/", "x", ".", "c", "o", "m">>
HostXComUpper == <<"/", "/", "X", ".", "C", "O", "M">>
PathBlogPost == <<"/", "b", "l", "o", "g", "/", "p", "o", "s", "t">>

\* https://x.com/blog/post and https://X.COM/blog/post/
PostLower == Url(HttpsLower, HostXCom, PathBlogPost, <<>>, <<>>)
PostUpperSlash == Url(HttpsLower, HostXComUpper, PathBlogPost \o <<"/">>, <<>>, <<>>)

ScanUrls ==
    {PostLower, PostUpperSlash,
     Url(HttpsLower, HostXCom, PathBlogPost, QueryQ, <<>>),
     Url(HttpsLower, HostXCom, PathBlogPost, QueryR, <<>>),
     Url(HttpsLower, HostXCom, PathBlogPost \o Slashes(MaxSlashes), <<>>, <<>>)}

\* crawl.Page, without the html
Pages == [company : {CompanyC}, url : ScanUrls]
         \cup {[company |-> CompanyD, url |-> PostLower]}

\* A variant that finds no ids in the ledger (as when the read fails).
load_existing_ids_none(ledger) == {}

\* daily_scan.load_existing_ids: the id column of the ledger as a set
load_existing_ids(ledger) == {ledger[i].id : i \in 1..Len(ledger)}

InitScan ==
    /\ fx = FxIdle
    /\ updates = <<>>
    /\ scan = ScanIdle
    /\ lastRun = NoRun
    /\ crawled = {}
    /\ EmailIdle
    /\ EnrichAtRest
    /\ LaterAtRest

\* main, lines 108-116: ensure_headers, load_existing_ids, empty run state
ScanStart ==
    /\ scan.pc = "idle"
    /\ lastRun.n < MaxRuns
    /\ scan' = [ScanIdle EXCEPT !.pc = "crawl",
                                !.existing_ids = load_existing_ids(updates)]
    /\ UNCHANGED <<fx, updates, lastRun, crawled, emailVars, enrichVars, laterVars>>

\* main, lines 118-145: one iteration of the loop over crawl_all()
ScanPage(page) ==
    /\ scan.pc = "crawl"
    /\ scan.pages_processed < MaxPagesPerRun
    /\ LET rid == make_id(page.company, Str(page.url))
       IN IF rid \in scan.existing_ids \/ rid \in scan.seen_ids_this_run
          THEN scan' = [scan EXCEPT !.pages_processed = @ + 1,
                                    !.yielded = @ \cup {page}]
          ELSE scan' = [scan EXCEPT
                          !.pages_processed = @ + 1,
                          !.yielded = @ \cup {page},
                          !.new_rows = Append(@, [id |-> rid,
                                                  company |-> page.company,
                                                  source_url |-> Str(page.url)]),
                          !.seen_ids_this_run = @ \cup {rid}]
    /\ crawled' = crawled \cup {page}
    /\ UNCHANGED <<fx, updates, lastRun, emailVars, enrichVars, laterVars>>

\* main, lines 156-183: the crawl is over; append the new rows, if any
ScanFinish ==
    /\ scan.pc = "crawl"
    /\ updates' = IF scan.new_rows # <<>> THEN updates \o scan.new_rows ELSE updates
    /\ lastRun' = [pages |-> scan.yielded, added |-> Len(scan.new_rows),
                   after |-> Len(updates'), n |-> lastRun.n + 1,
                   samePagesAsPrev |-> (lastRun.n > 0 /\ scan.yielded = lastRun.pages),
                   prevAfter |-> lastRun.after]
    /\ scan' = ScanIdle
    /\ UNCHANGED <<fx, crawled, emailVars, enrichVars, laterVars>>

NextScan ==
    \/ ScanStart
    \/ \E page \in Pages : ScanPage(page)
    \/ ScanFinish

SpecScan == InitScan /\ [][NextScan]_vars

---------------------------------------------------------------------------
(* SpecEmail: the webhook server, the batch reprocessor and the dashboard  *)
(* are three operating-system processes over the same files. Every step is *)
(* one read or one write of a file, together with the computation that     *)
(* follows it. The webhook server handles one request at a time: the       *)
(* handler is a coroutine that never awaits after it has read the request. *)

InitEmail ==
    /\ fx = FxIdle
    /\ updates = <<>>
    /\ scan = ScanIdle
    /\ lastRun = NoRun
    /\ crawled = {}
    /\ EmailIdle
    /\ EnrichAtRest
    /\ LaterAtRest

\* Operations started so far, over the three processes
Started == wh.deliveries + batch.runs + dash.ops

\* process_email_immediately returns (None or the row) and receive_email
\* answers the request; calls is what the last step asked of the oracle
WhReturn(calls) ==
    [WhIdle EXCEPT !.deliveries = wh.deliveries, !.known = wh.known,
                   !.oracle_calls = wh.oracle_calls + calls,
                   !.absorbed = wh.absorbed, !.concurrent = wh.concurrent]

\* receive_email, lines 363-393: the payload is saved under a name made of
\* the message-id and the time, with the time of receipt added to it
ReceiveEmail(mail, t_name, t_received) ==
    /\ wh.pc = "idle"
    /\ wh.deliveries < MaxDeliveries
    /\ Started < MaxOperations
    /\ LET filename == Filename(mail.message_id, t_name)
           payload == [mail |-> mail, received_at |-> isoformat(t_received)]
       IN /\ files' = WriteFile(files, "emails", filename, payload)
          /\ wh' = [WhIdle EXCEPT !.pc = "load_ids", !.json_file = filename,
                                  !.payload = payload,
                                  !.deliveries = wh.deliveries + 1,
                                  !.absorbed = wh.absorbed,
                                  !.concurrent = wh.concurrent \/ dash.pc # "idle"]
    /\ UNCHANGED <<webVars, enrichVars, laterVars, updates, emails, senders, batch, dash>>

\* process_email_immediately, line 225: load_existing_ids()
WhLoadExistingIds ==
    /\ wh.pc = "load_ids"
    /\ wh' = [wh EXCEPT !.pc = "received",
                        !.existing_ids = webhook_load_existing_ids(updates),
                        !.known = HasEmail(emails, wh.json_file)]
    /\ UNCHANGED <<webVars, enrichVars, laterVars, updates, emails, senders, files, batch, dash>>

\* record_email_received, lines 434-447: email_exists, then save_email_record
\* appends; the returned record is not looked at by the caller
WhRecordReceived ==
    /\ wh.pc = "received"
    /\ IF HasEmail(emails, wh.json_file)
       THEN /\ wh' = [wh EXCEPT !.pc = "match"]
            /\ UNCHANGED emails
       ELSE /\ emails' = save_email_record(emails, wh.json_file, FromAddr(wh.payload))
            /\ wh' = [wh EXCEPT !.pc = "stats_load", !.stage = "received",
                                !.wrote = TRUE]
    /\ UNCHANGED <<webVars, enrichVars, laterVars, updates, senders, files, batch, dash>>

\* update_sender_stats, line 254: load_senders_df()
WhStatsLoad ==
    /\ wh.pc = "stats_load"
    /\ wh' = [wh EXCEPT !.pc = "stats_write", !.df = senders]
    /\ UNCHANGED <<webVars, enrichVars, laterVars, updates, emails, senders, files, batch, dash>>

\* update_sender_stats, lines 257-276: the counter of the stage is raised in
\* the loaded frame and the frame is written back
WhStatsWrite ==
    /\ wh.pc = "stats_write"
    /\ senders' = update_sender_stats(wh.df, FromAddr(wh.payload),
                                      IF wh.stage = "received" THEN 1 ELSE 0,
                                      IF wh.stage = "matched" THEN 1 ELSE 0,
                                      IF wh.stage = "injected" THEN 1 ELSE 0)
    /\ wh' = [wh EXCEPT !.df = <<>>, !.wrote = FALSE,
                        !.pc = CASE wh.stage = "received" -> "match"
                                 [] wh.stage = "matched" -> "quality"
                                 [] wh.stage = "injected" -> "move"]
    /\ UNCHANGED <<webVars, enrichVars, laterVars, updates, emails, files, batch, dash>>

\* process_email_immediately, lines 263-268: match_email_to_competitor reads
\* the senders ledger and, without an assignment, asks the oracle
WhMatch(answer) ==
    /\ wh.pc = "match"
    /\ LET company == match_email_to_competitor(senders, FromAddr(wh.payload), answer)
           calls == IF ConsultsMatcher(senders, FromAddr(wh.payload)) THEN 1 ELSE 0
           asked == IF calls = 1 THEN <<answer>> ELSE <<>>
       IN IF company = <<>>
          THEN wh' = [WhReturn(calls) EXCEPT !.absorbed = @ \cup {wh.json_file},
                                             !.asked = asked]
          ELSE wh' = [wh EXCEPT !.pc = "matched_load", !.company = company,
                                !.oracle_calls = @ + calls, !.asked = asked]
    /\ UNCHANGED <<webVars, enrichVars, laterVars, updates, emails, senders, files, batch, dash>>

\* record_email_matched, line 460: load_emails_df()
WhMatchedLoad ==
    /\ wh.pc = "matched_load"
    /\ wh' = [wh EXCEPT !.pc = "matched_write", !.df = emails, !.asked = <<>>]
    /\ UNCHANGED <<webVars, enrichVars, laterVars, updates, emails, senders, files, batch, dash>>

\* record_email_matched, lines 461-464: the loaded frame is written back
\* with the company set, when it holds the email
WhMatchedWrite ==
    /\ wh.pc = "matched_write"
    /\ emails' = IF HasEmail(wh.df, wh.json_file)
                 THEN SetMatchedCompany(wh.df, wh.json_file, wh.company)
                 ELSE emails
    /\ wh' = [wh EXCEPT !.pc = "stats_load", !.stage = "matched", !.df = <<>>,
                        !.wrote = HasEmail(wh.df, wh.json_file)]
    /\ UNCHANGED <<webVars, enrichVars, laterVars, updates, senders, files, batch, dash>>

\* process_email_immediately, lines 275-285: the quality gate, then the id
\* is looked up in the ids loaded at the start
WhQuality(answer) ==
    /\ wh.pc = "quality"
    /\ IF ~check_email_quality(answer)
       THEN wh' = [WhReturn(1) EXCEPT !.absorbed = @ \cup {wh.json_file},
                                      !.asked = <<answer>>]
       ELSE IF webhook_make_id(wh.company, MessageId(wh.payload)) \in wh.existing_ids
       THEN wh' = [WhReturn(1) EXCEPT !.asked = <<answer>>]
       ELSE wh' = [wh EXCEPT !.pc = "append", !.oracle_calls = @ + 1,
                             !.asked = <<answer>>]
    /\ UNCHANGED <<webVars, enrichVars, laterVars, updates, emails, senders, files, batch, dash>>

\* process_email_immediately, lines 288-304: the row is appended
WhAppend ==
    /\ wh.pc = "append"
    /\ updates' = Append(updates,
                         [id |-> webhook_make_id(wh.company, MessageId(wh.payload)),
                          company |-> wh.company,
                          source_url |-> EmailUrl(wh.json_file)])
    /\ wh' = [wh EXCEPT !.pc = "injected_load", !.asked = <<>>]
    /\ UNCHANGED <<webVars, enrichVars, laterVars, emails, senders, files, batch, dash>>

\* update_email_injected, line 196: load_emails_df()
WhInjectedLoad ==
    /\ wh.pc = "injected_load"
    /\ wh' = [wh EXCEPT !.pc = "injected_write", !.df = emails]
    /\ UNCHANGED <<webVars, enrichVars, laterVars, updates, emails, senders, files, batch, dash>>

\* update_email_injected, lines 197-199
WhInjectedWrite ==
    /\ wh.pc = "injected_write"
    /\ emails' = IF HasEmail(wh.df, wh.json_file)
                 THEN SetInjected(wh.df, wh.json_file)
                 ELSE emails
    /\ wh' = [wh EXCEPT !.pc = "stats_load", !.stage = "injected", !.df = <<>>,
                        !.wrote = HasEmail(wh.df, wh.json_file)]
    /\ UNCHANGED <<webVars, enrichVars, laterVars, updates, senders, files, batch, dash>>

\* process_email_immediately, lines 317-324: the payload file is renamed
\* into processed/, when it is still in data/emails (the parquet mirror
\* written before it is a copy of updates.csv and is not part of the state)
WhMove ==
    /\ wh.pc = "move"
    /\ files' = IF InDir("emails", wh.json_file)
                THEN MoveFile(files, "emails", "processed", wh.json_file)
                ELSE files
    /\ wh' = WhReturn(0)
    /\ UNCHANGED <<webVars, enrichVars, laterVars, updates, emails, senders, batch, dash>>

\* process_emails.main, lines 273-279
BatchStart ==
    /\ batch.pc = "idle"
    /\ batch.runs < MaxBatchRuns
    /\ Started < MaxOperations
    /\ batch' = [BatchIdle EXCEPT !.pc = "glob", !.runs = batch.runs + 1,
                                  !.existing_ids = process_emails_load_existing_ids(updates)]
    /\ UNCHANGED <<webVars, enrichVars, laterVars, updates, emails, senders, files, wh, dash>>

\* process_emails.main, lines 282-292
BatchGlob ==
    /\ batch.pc = "glob"
    /\ \E email_files \in GlobOrders :
          batch' = IF email_files = <<>>
                   THEN [BatchIdle EXCEPT !.runs = batch.runs]
                   ELSE [batch EXCEPT !.pc = "process", !.email_files = email_files]
    /\ UNCHANGED <<webVars, enrichVars, laterVars, updates, emails, senders, files, wh, dash>>

\* process_emails.main, lines 294-306: one iteration of the loop; a file
\* that is no longer there cannot be read and gives no row
BatchProcessFile ==
    /\ batch.pc = "process"
    /\ LET name == Head(batch.email_files)
           row == IF InDir("emails", name)
                  THEN process_email_file(name, ReadFile("emails", name), batch.existing_ids)
                  ELSE NoRow
           rest == Tail(batch.email_files)
       IN batch' = [batch EXCEPT
                      !.email_files = rest,
                      !.pc = IF rest = <<>> THEN "append" ELSE "process",
                      !.processed_files = Append(@, name),
                      !.new_rows = IF row # NoRow THEN Append(@, row) ELSE @,
                      !.existing_ids = IF row # NoRow THEN @ \cup {row.id} ELSE @]
    /\ UNCHANGED <<webVars, enrichVars, laterVars, updates, emails, senders, files, wh, dash>>

\* process_emails.main, lines 309-315
BatchAppend ==
    /\ batch.pc = "append"
    /\ updates' = IF batch.new_rows # <<>> THEN updates \o batch.new_rows ELSE updates
    /\ batch' = [batch EXCEPT !.pc = "move", !.new_rows = <<>>, !.existing_ids = {}]
    /\ UNCHANGED <<webVars, enrichVars, laterVars, emails, senders, files, wh, dash>>

\* process_emails.main, lines 326-332: one iteration of the loop
BatchMoveFile ==
    /\ batch.pc = "move"
    /\ LET name == Head(batch.processed_files)
           rest == Tail(batch.processed_files)
       IN /\ files' = IF InDir("emails", name)
                      THEN MoveFile(files, "emails", "processed", name)
                      ELSE files
          /\ batch' = IF rest = <<>>
                      THEN [BatchIdle EXCEPT !.runs = batch.runs]
                      ELSE [batch EXCEPT !.processed_files = rest]
    /\ UNCHANGED <<webVars, enrichVars, laterVars, updates, emails, senders, wh, dash>>

DashReturn == [DashIdle EXCEPT !.ops = dash.ops, !.concurrent = dash.concurrent]

\* What an operation of the dashboard starts from
DashStart ==
    [DashIdle EXCEPT !.ops = dash.ops + 1,
                     !.concurrent = dash.concurrent \/ wh.pc # "idle"]

\* delete_email, lines 607-617, for any email the dashboard lists (the
\* records that are not deleted)
DeleteEmail ==
    /\ dash.pc = "idle"
    /\ dash.ops < MaxDashboardOps
    /\ Started < MaxOperations
    /\ \E i \in 1..Len(emails) :
          /\ emails[i].status # "deleted"
          /\ \A j \in 1..(i - 1) : emails[j].json_file # emails[i].json_file
          /\ dash' = [DashStart EXCEPT
                        !.pc = "delete_write",
                        !.json_file = emails[i].json_file, !.df = emails,
                        !.from_address = emails[i].from_address,
                        !.was_processed = (emails[i].matched_company # <<>>
                                           /\ emails[i].matched_company # Unmatched),
                        !.was_injected = (emails[i].injected = "True")]
    /\ UNCHANGED <<webVars, enrichVars, laterVars, updates, emails, senders, files, wh, batch>>

\* delete_email, lines 619-620
DeleteWrite ==
    /\ dash.pc = "delete_write"
    /\ emails' = SetDeleted(dash.df, dash.json_file)
    /\ dash' = [dash EXCEPT !.df = <<>>,
                            !.pc = IF dash.from_address # <<>>
                                   THEN "delete_stats_load" ELSE "delete_move"]
    /\ UNCHANGED <<webVars, enrichVars, laterVars, updates, senders, files, wh, batch>>

\* _decrement_sender_stats, lines 537-541
DeleteStatsLoad ==
    /\ dash.pc = "delete_stats_load"
    /\ dash' = IF HasSender(senders, dash.from_address)
               THEN [dash EXCEPT !.pc = "delete_stats_write", !.df = senders]
               ELSE [dash EXCEPT !.pc = "delete_move"]
    /\ UNCHANGED <<webVars, enrichVars, laterVars, updates, emails, senders, files, wh, batch>>

\* _decrement_sender_stats, lines 543-554
DeleteStatsWrite ==
    /\ dash.pc = "delete_stats_write"
    /\ senders' = decrement_sender_stats(dash.df, dash.from_address, 1,
                                         IF dash.was_processed THEN 1 ELSE 0,
                                         IF dash.was_injected THEN 1 ELSE 0)
    /\ dash' = [dash EXCEPT !.pc = "delete_move", !.df = <<>>]
    /\ UNCHANGED <<webVars, enrichVars, laterVars, updates, emails, files, wh, batch>>

\* delete_email, lines 637-647: the payload file goes to deleted/
DeleteMove ==
    /\ dash.pc = "delete_move"
    /\ files' = IF InDir("emails", dash.json_file)
                THEN MoveFile(files, "emails", "deleted", dash.json_file)
                ELSE IF InDir("processed", dash.json_file)
                THEN MoveFile(files, "processed", "deleted", dash.json_file)
                ELSE files
    /\ dash' = [dash EXCEPT !.pc = "delete_updates_load"]
    /\ UNCHANGED <<webVars, enrichVars, laterVars, updates, emails, senders, wh, batch>>

\* json_file.replace(".json", ""), then f"email://{email_id}"
DeletedUrl(json_file) == EmailScheme \o Replace(json_file, JsonSuffix, <<>>)

\* updates_df[updates_df["source_url"] != source_url]
WithoutUrl(df, source_url) == SelectSeq(df, LAMBDA row : row.source_url # source_url)

\* delete_email, lines 650-655: updates.csv is read and filtered (the same
\* is done to the enriched ledger, which is not part of the state)
DeleteUpdatesLoad ==
    /\ dash.pc = "delete_updates_load"
    /\ dash' = IF Len(WithoutUrl(updates, DeletedUrl(dash.json_file))) < Len(updates)
               THEN [dash EXCEPT !.pc = "delete_updates_write",
                                 !.df = WithoutUrl(updates, DeletedUrl(dash.json_file))]
               ELSE DashReturn
    /\ UNCHANGED <<webVars, enrichVars, laterVars, updates, emails, senders, files, wh, batch>>

\* delete_email, line 656: the filtered frame replaces updates.csv
DeleteUpdatesWrite ==
    /\ dash.pc = "delete_updates_write"
    /\ updates' = dash.df
    /\ dash' = DashReturn
    /\ UNCHANGED <<webVars, enrichVars, laterVars, emails, senders, files, wh, batch>>

\* The choices of the dashboard's company selector
AssignableCompanies == Range(get_competitor_names) \cup {<<>>}

\* set_sender_assigned_company, lines 282-283, for any sender the dashboard
\* lists and any company of its selector
AssignSender ==
    /\ dash.pc = "idle"
    /\ dash.ops < MaxDashboardOps
    /\ Started < MaxOperations
    /\ \E i \in 1..Len(senders), company \in AssignableCompanies :
          dash' = [DashStart EXCEPT !.pc = "assign_write",
                                  !.from_address = senders[i].from_address,
                                  !.company = company, !.df = senders]
    /\ UNCHANGED <<webVars, enrichVars, laterVars, updates, emails, senders, files, wh, batch>>

\* set_sender_assigned_company, lines 285-299
AssignWrite ==
    /\ dash.pc = "assign_write"
    /\ senders' = set_sender_assigned_company(dash.df, dash.from_address, dash.company)
    /\ dash' = DashReturn
    /\ UNCHANGED <<webVars, enrichVars, laterVars, updates, emails, files, wh, batch>>

\* delete_sender, lines 565-576, for any sender the dashboard lists as
\* unassigned
DeleteSender ==
    /\ dash.pc = "idle"
    /\ dash.ops < MaxDashboardOps
    /\ Started < MaxOperations
    /\ \E i \in 1..Len(senders) :
          /\ ~HasAssignment(senders, senders[i].from_address)
          /\ dash' = [DashStart EXCEPT !.pc = "sender_write", !.df = senders,
                                       !.from_address = senders[i].from_address]
    /\ UNCHANGED <<webVars, enrichVars, laterVars, updates, emails, senders, files, wh, batch>>

\* delete_sender, lines 579-580
DeleteSenderWrite ==
    /\ dash.pc = "sender_write"
    /\ senders' = WithoutSender(dash.df, dash.from_address)
    /\ dash' = DashReturn
    /\ UNCHANGED <<webVars, enrichVars, laterVars, updates, emails, files, wh, batch>>

\* rebuild_sender_stats, lines 487-491: load_emails_df()
RebuildSenderStats ==
    /\ dash.pc = "idle"
    /\ dash.ops < MaxDashboardOps
    /\ Started < MaxOperations
    /\ dash' = IF emails = <<>>
               THEN [DashStart EXCEPT !.pc = "idle"]
               ELSE [DashStart EXCEPT !.pc = "rebuild_load", !.emails_df = emails]
    /\ UNCHANGED <<webVars, enrichVars, laterVars, updates, emails, senders, files, wh, batch>>

\* rebuild_sender_stats, line 510: load_senders_df()
RebuildLoad ==
    /\ dash.pc = "rebuild_load"
    /\ dash' = [dash EXCEPT !.pc = "rebuild_write", !.df = senders]
    /\ UNCHANGED <<webVars, enrichVars, laterVars, updates, emails, senders, files, wh, batch>>

\* rebuild_sender_stats, lines 518-519
RebuildWrite ==
    /\ dash.pc = "rebuild_write"
    /\ senders' = rebuild_sender_stats(dash.emails_df, dash.df)
    /\ dash' = DashReturn
    /\ UNCHANGED <<webVars, enrichVars, laterVars, updates, emails, files, wh, batch>>

NextEmail ==
    \/ \E mail \in Mails, t_name \in Clock, t_received \in Clock :
          ReceiveEmail(mail, t_name, t_received)
    \/ WhLoadExistingIds
    \/ WhRecordReceived
    \/ WhStatsLoad
    \/ WhStatsWrite
    \/ \E answer \in MatchAnswers : WhMatch(answer)
    \/ WhMatchedLoad
    \/ WhMatchedWrite
    \/ \E answer \in QualityAnswers : WhQuality(answer)
    \/ WhAppend
    \/ WhInjectedLoad
    \/ WhInjectedWrite
    \/ WhMove
    \/ BatchStart
    \/ BatchGlob
    \/ BatchProcessFile
    \/ BatchAppend
    \/ BatchMoveFile
    \/ DeleteEmail
    \/ DeleteWrite
    \/ DeleteStatsLoad
    \/ DeleteStatsWrite
    \/ DeleteMove
    \/ DeleteUpdatesLoad
    \/ DeleteUpdatesWrite
    \/ AssignSender
    \/ AssignWrite
    \/ DeleteSender
    \/ DeleteSenderWrite
    \/ RebuildSenderStats
    \/ RebuildLoad
    \/ RebuildWrite

SpecEmail == InitEmail /\ [][NextEmail]_vars

\* SpecEmailLater: the same processes, started from the state the files are
\* in after an earlier request: a mail without message-id from n@zed.io was
\* stored and recorded, and the matcher found no competitor for it.
EarlierFile == Filename(MailWithoutId.message_id, 1)

EarlierPayload == [mail |-> MailWithoutId, received_at |-> isoformat(1)]

InitEmailLater ==
    /\ fx = FxIdle
    /\ updates = <<>>
    /\ scan = ScanIdle
    /\ lastRun = NoRun
    /\ crawled = {}
    /\ emails = save_email_record(<<>>, EarlierFile, FromAddr(EarlierPayload))
    /\ senders = update_sender_stats(<<>>, FromAddr(EarlierPayload), 1, 0, 0)
    /\ files = {[dir |-> "emails", name |-> EarlierFile, payload |-> EarlierPayload]}
    /\ wh = [WhIdle EXCEPT !.absorbed = {EarlierFile}]
    /\ batch = BatchIdle
    /\ dash = DashIdle
    /\ EnrichAtRest
    /\ LaterAtRest

SpecEmailLater == InitEmailLater /\ [][NextEmail]_vars

---------------------------------------------------------------------------
(* SpecEnrich: jobs/enrich_updates.main, run after run over an Update      *)
(* Record ledger. No enriched file exists before the first run.            *)

ArticleUrl == <<"a", ".", "i", "o", "/", "1">>
NoticeUrl == <<"a", ".", "i", "o", "/", "2">>

\* Rows of updates.csv, with the columns the job reads
Article ==
    [id |-> make_id(Acme, ArticleUrl), company |-> Acme, source_url |-> ArticleUrl,
     title |-> <<"T">>, clean_text |-> <<"b">>]
Notice ==
    [id |-> make_id(Acme, NoticeUrl), company |-> Acme, source_url |-> NoticeUrl,
     title |-> <<"N">>, clean_text |-> <<>>]

EnrichLedgers == {<<Article>>, <<Article, Notice>>}

InitEnrich ==
    /\ fx = FxIdle
    /\ updates \in EnrichLedgers
    /\ scan = ScanIdle
    /\ lastRun = NoRun
    /\ crawled = {}
    /\ EmailIdle
    /\ EnrichAtRest
    /\ LaterAtRest

\* main, lines 166-169: load_raw()
EnrichLoadRaw ==
    /\ enrich.pc = "idle"
    /\ enrich.runs < MaxEnrichRuns
    /\ enrich' = IF updates = <<>>
                 THEN [EnrichIdle EXCEPT !.runs = enrich.runs + 1]
                 ELSE [EnrichIdle EXCEPT !.pc = "merge", !.runs = enrich.runs + 1,
                                         !.fresh = load_raw(updates)]
    /\ UNCHANGED <<webVars, updates, emailVars, laterVars, enriched>>

\* main, lines 171-173, and enrich_missing, lines 111-127: the enriched file
\* is loaded and merged, and the rows to enrich are picked
EnrichMerge ==
    /\ enrich.pc = "merge"
    /\ LET df == Blanked(merge_keep_existing(load_enriched_existing(enriched),
                                             enrich.fresh))
       IN enrich' = [enrich EXCEPT !.pc = IF Todo(df) = <<>> THEN "write" ELSE "classify",
                                   !.fresh = <<>>, !.df = df, !.todo = Todo(df)]
    /\ UNCHANGED <<webVars, updates, emailVars, laterVars, enriched>>

\* enrich_missing, lines 130-140: one iteration of the loop; an exception
\* out of classify_article would end the job
EnrichClassify(response) ==
    /\ enrich.pc = "classify"
    /\ LET row == Head(enrich.todo)
           out == classify_article(row.title, row.clean_text, response)
           called == CallsClassifier(row.title, row.clean_text)
           rest == Tail(enrich.todo)
       IN IF out = Propagated
          THEN enrich' = [enrich EXCEPT !.pc = "aborted",
                                        !.asked = IF called THEN <<response>> ELSE <<>>,
                                        !.out = <<out>>]
          ELSE enrich' = [enrich EXCEPT
                            !.pc = IF rest = <<>> THEN "write" ELSE "classify",
                            !.todo = rest,
                            !.rows = Append(@, Enriched(row, out)),
                            !.asked = IF called THEN <<response>> ELSE <<>>,
                            !.out = <<out>>,
                            !.calls = IF called THEN @ + 1 ELSE @,
                            !.failed = IF called /\ (response.raised \/ ~response.object)
                                       THEN @ + 1 ELSE @]
    /\ UNCHANGED <<webVars, updates, emailVars, laterVars, enriched>>

\* enrich_missing, lines 146-160, and main, lines 176-178: the enriched rows
\* are put into the frame and the frame replaces the enriched file
EnrichWrite ==
    /\ enrich.pc = "write"
    /\ enriched' = IF enrich.rows = <<>> THEN enrich.df ELSE Update(enrich.df, enrich.rows)
    /\ enrich' = [EnrichIdle EXCEPT !.runs = enrich.runs, !.calls = enrich.calls,
                                    !.failed = enrich.failed]
    /\ UNCHANGED <<webVars, updates, emailVars, laterVars>>

NextEnrich ==
    \/ EnrichLoadRaw
    \/ EnrichMerge
    \/ \E response \in ClassifierResponses : EnrichClassify(response)
    \/ EnrichWrite

SpecEnrich == InitEnrich /\ [][NextEnrich]_vars

---------------------------------------------------------------------------
(* jobs/append_updates.py, jobs/update_daily.py, jobs/fetch_rss.py: the    *)
(* reconciliation of rows of one (company, source_url)                     *)

\* A timestamp of a frame: pandas' NaT, or a day
NaT == [nat |-> TRUE, day |-> 0]
Day(n) == [nat |-> FALSE, day |-> n]

\* pd.to_datetime(column, errors="coerce", utc=True) on one cell: a cell
\* that is not a timestamp gives NaT
to_datetime(cell) ==
    IF Len(cell) = 1 /\ cell[1] \in Range(DigitChars)
    THEN Day(CHOOSE n \in 0..9 : DigitChars[n + 1] = cell[1])
    ELSE NaT

\* DataFrame.to_csv on one timestamp: NaT is written as an empty cell
to_csv_cell(t) == IF t.nat THEN <<>> ELSE <<DigitChars[t.day + 1]>>

\* The frame of a ledger file whose two timestamp columns are converted
ToFrame(file) ==
    [i \in 1..Len(file) |-> [file[i] EXCEPT !.published_at = to_datetime(@),
                                            !.collected_at = to_datetime(@)]]

\* The file DataFrame.to_csv writes for such a frame
ToFile(df) ==
    [i \in 1..Len(df) |-> [df[i] EXCEPT !.published_at = to_csv_cell(@),
                                        !.collected_at = to_csv_cell(@)]]

\* The frame df[order[1]], df[order[2]], ...
Reordered(df, order) == [k \in 1..Len(df) |-> df[order[k]]]

\* The permutations of 1..n, as sequences
Orders(n) == {o \in [1..n -> 1..n] : \A i, j \in 1..n : o[i] = o[j] => i = j}

SameKeyAs(a, b) == a.company = b.company /\ a.source_url = b.source_url

\* DataFrame.drop_duplicates(subset=["company", "source_url"], keep="first")
drop_duplicates_first(df) ==
    LET Kept == {i \in 1..Len(df) : \A j \in 1..(i - 1) : ~SameKeyAs(df[j], df[i])}
        order == CHOOSE o \in [1..Cardinality(Kept) -> Kept] :
                    \A a, b \in 1..Cardinality(Kept) : a < b => o[a] < o[b]
    IN [k \in 1..Cardinality(Kept) |-> df[order[k]]]

\* DataFrame.drop_duplicates(subset=["company", "source_url"], keep="last")
drop_duplicates_last(df) ==
    LET Kept == {i \in 1..Len(df) : \A j \in (i + 1)..Len(df) : ~SameKeyAs(df[j], df[i])}
        order == CHOOSE o \in [1..Cardinality(Kept) -> Kept] :
                    \A a, b \in 1..Cardinality(Kept) : a < b => o[a] < o[b]
    IN [k \in 1..Cardinality(Kept) |-> df[order[k]]]

\* append_updates.main, lines 35-37: sort_values("published_at_norm"), which
\* puts NaT last in the order of the frame and sorts the other rows with an
\* unstable sort; the orders it can give
AscendingOrders(df) ==
    {o \in Orders(Len(df)) :
        \A a, b \in 1..Len(df) :
            a < b => LET x == df[o[a]].published_at
                         y == df[o[b]].published_at
                     IN /\ x.nat => y.nat /\ o[a] < o[b]
                        /\ (~x.nat /\ ~y.nat) => x.day <= y.day}

\* append_updates.main, lines 32-40, for one of these orders
append_updates_merge(base, add, order) ==
    drop_duplicates_last(Reordered(base \o add, order))

\* update_daily.dedupe, line 50: row a is sorted before row b: published_at
\* descending, then collected_at descending, NaT last in both
SortsBefore(a, b) ==
    LET Earlier(x, y) == (~x.nat /\ y.nat) \/ (~x.nat /\ ~y.nat /\ x.day > y.day)
    IN \/ Earlier(a.published_at, b.published_at)
       \/ /\ a.published_at = b.published_at
          /\ Earlier(a.collected_at, b.collected_at)

\* The order of the stable sort of line 50
DescendingOrder(df) ==
    CHOOSE o \in Orders(Len(df)) :
        \A a, b \in 1..Len(df) :
            a < b => /\ ~SortsBefore(df[o[b]], df[o[a]])
                     /\ SortsBefore(df[o[a]], df[o[b]]) \/ o[a] < o[b]

\* update_daily.dedupe
dedupe(df) == drop_duplicates_first(Reordered(df, DescendingOrder(df)))

\* fetch_rss.main, lines 63-71
fetch_rss_merge(cur, new_df) == drop_duplicates_first(cur \o new_df)

---------------------------------------------------------------------------
(* SpecDaily: instances of jobs/update_daily.main, each with its fetch_rss *)
(* and enrich_updates subprocesses, and jobs/append_updates.main, over one *)
(* ledger                                                                  *)

FeedUrl == <<"h", "t", "t", "p", "s", ":", "/", "/", "a", ".", "i", "o", "/", "1">>

\* A row fetch_rss.main wrote at an earlier fetch; it has no id
RssRow(title, published_at, collected_at) ==
    [id |-> <<>>, company |-> Acme, source_url |-> FeedUrl, title |-> title,
     published_at |-> published_at, collected_at |-> collected_at, clean_text |-> <<"b">>]

EarlierEntry == RssRow(<<"T">>, <<"2">>, <<"2">>)

\* The row daily_scan.main appended for the same address, crawled later, for
\* which parse_article found no publish date
CrawledLater ==
    [id |-> make_id(Acme, FeedUrl), company |-> Acme, source_url |-> FeedUrl,
     title |-> <<"U">>, published_at |-> <<>>, collected_at |-> <<"3">>, clean_text |-> <<"b">>]

DailyLedgers == {<<EarlierEntry>>, <<EarlierEntry, CrawledLater>>}

\* What the feeds hold at a fetch: nothing since the date asked, or the
\* entry again, updated
FeedBatches == {<<>>, <<RssRow(<<"V">>, <<"3">>, <<"3">>)>>}

\* data/new_updates.csv
NewUpdatesFiles ==
    {<<RssRow(<<"V">>, <<"3">>, <<"3">>)>>,
     <<RssRow(<<"W">>, <<>>, <<"1">>)>>}

\* What the classifier does for the rows of one pass of the enrich_updates
\* subprocess
DailyResponses ==
    {ClassifierRaised,
     JsonObject([summary |-> SummaryText, category |-> PricingPlans, impact |-> ImpactHigh])}

InitDaily ==
    /\ fx = FxIdle
    /\ updates \in DailyLedgers
    /\ scan = ScanIdle
    /\ lastRun = NoRun
    /\ crawled = {}
    /\ EmailIdle
    /\ EnrichAtRest
    /\ LaterAtRest

\* Some row of the frame has the key of an earlier row
RepeatsKey(df) == \E i, j \in 1..Len(df) : i < j /\ SameKeyAs(df[i], df[j])

\* jobs.enrich_updates.main as one step: the file it writes for a ledger
\* and an enriched file, when the classifier answers response for every row
EnrichPass(ledger, file, response) ==
    LET df == Blanked(merge_keep_existing(load_enriched_existing(file), load_raw(ledger)))
        rows == [k \in 1..Len(Todo(df)) |->
                   Enriched(Todo(df)[k],
                            classify_article(Todo(df)[k].title, Todo(df)[k].clean_text, response))]
    IN IF rows = <<>> THEN df ELSE Update(df, rows)

\* acquire_lock, lines 20-22: the lock file is looked for
UdAcquireCheck(i) ==
    /\ ud[i].pc = "idle"
    /\ ud' = [ud EXCEPT ![i].pc = IF lock THEN "exited" ELSE "acquire_write"]
    /\ UNCHANGED <<webVars, updates, emailVars, enrichVars, lock, tmp, ap, crawl, bg>>

\* acquire_lock, lines 23-24: the lock file is written
UdAcquireWrite(i) ==
    /\ ud[i].pc = "acquire_write"
    /\ lock' = TRUE
    /\ ud' = [ud EXCEPT ![i].pc = "fetch_read"]
    /\ UNCHANGED <<webVars, updates, emailVars, enrichVars, tmp, ap, crawl, bg>>

\* fetch_rss.main, lines 40-71: the entries are collected and merged with
\* the file read
UdFetchRead(i, entries) ==
    /\ ud[i].pc = "fetch_read"
    /\ ud' = [ud EXCEPT ![i].pc = "fetch_open",
                        ![i].cur = updates,
                        ![i].new_df = entries,
                        ![i].merged = fetch_rss_merge(updates, entries)]
    /\ UNCHANGED <<webVars, updates, emailVars, enrichVars, lock, tmp, ap, crawl, bg>>

\* fetch_rss.main, line 73: to_csv opens updates.csv for writing, which
\* empties it
UdFetchOpen(i) ==
    /\ ud[i].pc = "fetch_open"
    /\ updates' = <<>>
    /\ ud' = [ud EXCEPT ![i].pc = "fetch_write"]
    /\ UNCHANGED <<webVars, emailVars, enrichVars, lock, tmp, ap, crawl, bg>>

\* fetch_rss.main, line 73: the rows are written and the file is closed
UdFetchWrite(i) ==
    /\ ud[i].pc = "fetch_write"
    /\ updates' = ud[i].merged
    /\ ud' = [ud EXCEPT ![i].pc = "dedupe_read"]
    /\ UNCHANGED <<webVars, emailVars, enrichVars, lock, tmp, ap, crawl, bg>>

\* update_daily.main, lines 81-85: the ledger is read and deduplicated
UdDedupeRead(i) ==
    /\ ud[i].pc = "dedupe_read"
    /\ ud' = IF updates = <<>>
             THEN [ud EXCEPT ![i].pc = "enrich", ![i].cur = <<>>, ![i].raw = <<>>]
             ELSE [ud EXCEPT ![i].pc = "dedupe_tmp",
                             ![i].cur = updates,
                             ![i].raw = ToFile(dedupe(ToFrame(updates)))]
    /\ UNCHANGED <<webVars, updates, emailVars, enrichVars, lock, tmp, ap, crawl, bg>>

\* update_daily.main, lines 86-87: the frame is written to updates.csv.tmp
UdDedupeTmp(i) ==
    /\ ud[i].pc = "dedupe_tmp"
    /\ tmp' = [exists |-> TRUE, rows |-> ud[i].raw]
    /\ ud' = [ud EXCEPT ![i].pc = "dedupe_replace"]
    /\ UNCHANGED <<webVars, updates, emailVars, enrichVars, lock, ap, crawl, bg>>

\* update_daily.main, line 88: os.replace, which raises when another job
\* has renamed the temporary file away
UdDedupeReplace(i) ==
    /\ ud[i].pc = "dedupe_replace"
    /\ IF tmp.exists
       THEN /\ updates' = tmp.rows
            /\ tmp' = NoTmp
            /\ ud' = [ud EXCEPT ![i].pc = "enrich"]
       ELSE /\ ud' = [ud EXCEPT ![i].pc = "release"]
            /\ UNCHANGED <<updates, tmp>>
    /\ UNCHANGED <<webVars, emailVars, enrichVars, lock, ap, crawl, bg>>

\* update_daily.main, lines 92-98: the enrich_updates subprocess, which
\* fails when two of the rows it enriched have one key
UdEnrich(i, response) ==
    /\ ud[i].pc = "enrich"
    /\ enriched' = IF updates = <<>>
                      \/ RepeatsKey(Todo(Blanked(merge_keep_existing(
                             load_enriched_existing(enriched), load_raw(updates)))))
                   THEN enriched
                   ELSE EnrichPass(updates, enriched, response)
    /\ ud' = [ud EXCEPT ![i].pc = "release"]
    /\ UNCHANGED <<webVars, updates, emailVars, enrich, lock, tmp, ap, crawl, bg>>

\* release_lock
UdRelease(i) ==
    /\ ud[i].pc = "release"
    /\ lock' = FALSE
    /\ ud' = [ud EXCEPT ![i].pc = "done"]
    /\ UNCHANGED <<webVars, updates, emailVars, enrichVars, tmp, ap, crawl, bg>>

\* append_updates.main, lines 21-40: both files are read and merged; the
\* sort gives one of the orders it can give
ApRead(add) ==
    /\ ap.pc = "idle"
    /\ \E order \in AscendingOrders(ToFrame(updates \o add)) :
          ap' = [ap EXCEPT !.pc = "tmp", !.base = updates, !.add = add,
                           !.merged = ToFile(append_updates_merge(ToFrame(updates),
                                                                  ToFrame(add), order))]
    /\ UNCHANGED <<webVars, updates, emailVars, enrichVars, lock, tmp, ud, crawl, bg>>

\* append_updates.main, lines 44-45
ApTmp ==
    /\ ap.pc = "tmp"
    /\ tmp' = [exists |-> TRUE, rows |-> ap.merged]
    /\ ap' = [ap EXCEPT !.pc = "replace"]
    /\ UNCHANGED <<webVars, updates, emailVars, enrichVars, lock, ud, crawl, bg>>

\* append_updates.main, line 46
ApReplace ==
    /\ ap.pc = "replace"
    /\ IF tmp.exists
       THEN /\ updates' = tmp.rows
            /\ tmp' = NoTmp
       ELSE UNCHANGED <<updates, tmp>>
    /\ ap' = [ap EXCEPT !.pc = "done"]
    /\ UNCHANGED <<webVars, emailVars, enrichVars, lock, ud, crawl, bg>>

NextDaily ==
    \/ \E i \in Instances : UdAcquireCheck(i)
    \/ \E i \in Instances : UdAcquireWrite(i)
    \/ \E i \in Instances : \E entries \in FeedBatches : UdFetchRead(i, entries)
    \/ \E i \in Instances : UdFetchOpen(i)
    \/ \E i \in Instances : UdFetchWrite(i)
    \/ \E i \in Instances : UdDedupeRead(i)
    \/ \E i \in Instances : UdDedupeTmp(i)
    \/ \E i \in Instances : UdDedupeReplace(i)
    \/ \E i \in Instances : \E response \in DailyResponses : UdEnrich(i, response)
    \/ \E i \in Instances : UdRelease(i)
    \/ \E add \in NewUpdatesFiles : ApRead(add)
    \/ ApTmp
    \/ ApReplace

SpecDaily == InitDaily /\ [][NextDaily]_vars

---------------------------------------------------------------------------
(* SpecLedger: jobs/daily_scan.main and the dashboard's delete_email over  *)
(* the same updates.csv, from the state the files are in after the webhook *)
(* server has injected one email of a configured competitor                *)

InjectedFile == Filename(MailWithId.message_id, 1)

InjectedPayload == [mail |-> MailWithId, received_at |-> isoformat(1)]

InitLedger ==
    /\ fx = FxIdle
    /\ updates = <<[id |-> webhook_make_id(Acme, MessageId(InjectedPayload)),
                    company |-> Acme,
                    source_url |-> EmailUrl(InjectedFile)]>>
    /\ scan = ScanIdle
    /\ lastRun = NoRun
    /\ crawled = {}
    /\ emails = SetInjected(SetMatchedCompany(
                    save_email_record(<<>>, InjectedFile, FromAddr(InjectedPayload)),
                    InjectedFile, Acme), InjectedFile)
    /\ senders = update_sender_stats(<<>>, FromAddr(InjectedPayload), 1, 1, 1)
    /\ files = {[dir |-> "processed", name |-> InjectedFile, payload |-> InjectedPayload]}
    /\ wh = WhIdle
    /\ batch = BatchIdle
    /\ dash = DashIdle
    /\ EnrichAtRest
    /\ LaterAtRest

NextLedger ==
    \/ ScanStart
    \/ \E page \in Pages : ScanPage(page)
    \/ ScanFinish
    \/ DeleteEmail
    \/ DeleteWrite
    \/ DeleteStatsLoad
    \/ DeleteStatsWrite
    \/ DeleteMove
    \/ DeleteUpdatesLoad
    \/ DeleteUpdatesWrite

SpecLedger == InitLedger /\ [][NextLedger]_vars

---------------------------------------------------------------------------
(* app/crawl.py: crawl_competitor *)

\* crawl.discover_article_links and crawl_competitor, line 160: the markers
\* of an article path
ArticleMarkers ==
    {<<"/", "b", "l", "o", "g", "/">>, <<"/", "n", "e", "w", "s">>, <<"/", "p", "o", "s", "t">>, <<"/", "a", "r", "t", "i", "c", "l", "e">>, <<"/", "r", "e", "s", "o", "u", "r", "c", "e", "s">>, <<"/", "i", "n", "s", "i", "g", "h", "t", "s">>}

\* any(x in url.lower() for x in [...])
HasMarker(url) == \E x \in ArticleMarkers : Contains(LowerStr(url), x)

\* link.split("#")[0]
BeforeHash(link) == SplitAt(link, "#")[1]

\* urllib.parse.urljoin(base, url), for a reference that is empty, an
\* absolute URL or an absolute path without dot segments
urljoin(base, url) ==
    IF url = <<>> THEN base
    ELSE IF urlsplit(url).scheme # <<>> THEN url
    ELSE urlunsplit(urlsplit(base).scheme, urlsplit(base).netloc,
                    urlsplit(url).path, urlsplit(url).query, <<>>)

\* crawl._normalize_url
crawl_normalize_url(base, link) == urljoin(base, BeforeHash(link))

\* crawl._is_same_domain
is_same_domain(seed, candidate) == urlsplit(seed).netloc = urlsplit(candidate).netloc

\* A variant that keeps every link of the page
discover_article_links_all(html, base_url) ==
    {crawl_normalize_url(base_url, href) : href \in html}

\* crawl.discover_article_links; html is given by the href values of its
\* anchors
discover_article_links(html, base_url) ==
    {href \in {crawl_normalize_url(base_url, a) : a \in html} : HasMarker(href)}

\* A variant that never finds the budget used up
LoopContinues_unbounded(queue, visited, max_pages_per_site) == queue # <<>>

\* crawl_competitor, line 145: the loop condition
LoopContinues(queue, visited, max_pages_per_site) ==
    queue # <<>> /\ Cardinality(visited) < max_pages_per_site

\* A variant that takes the URL that entered the queue last
Pop_last(queue) == [url |-> queue[Len(queue)], rest |-> SubSeq(queue, 1, Len(queue) - 1)]

\* crawl_competitor, line 146: queue.pop(0)
Pop(queue) == [url |-> Head(queue), rest |-> Tail(queue)]

\* The links of a page the loop of lines 167-176 appends to the queue
NewLinks(links, start_urls, visited, queue, follow_within_domain_only) ==
    {link \in links :
        /\ follow_within_domain_only
             => \E k \in 1..Len(start_urls) : is_same_domain(start_urls[k], link)
        /\ link \notin visited
        /\ link \notin Range(queue)}

\* The orders in which a set can be iterated
Enumerations(S) ==
    {o \in [1..Cardinality(S) -> S] : \A i, j \in 1..Cardinality(S) : o[i] = o[j] => i = j}

---------------------------------------------------------------------------
(* SpecCrawl: one run of crawl_competitor for a configuration, against a   *)
(* site that answers each fetch with a failure or with some page           *)

SiteRoot == <<"h", "t", "t", "p", "s", ":", "/", "/", "x", ".", "c", "o", "m", "/">>
SiteNews == <<"h", "t", "t", "p", "s", ":", "/", "/", "x", ".", "c", "o", "m", "/", "n", "e", "w", "s">>
SiteNewsTop == <<"h", "t", "t", "p", "s", ":", "/", "/", "x", ".", "c", "o", "m", "/", "n", "e", "w", "s", "#", "t", "o", "p">>

\* start_urls of the configurations
SeedLists ==
    {<<SiteRoot>>, <<SiteNews>>, <<SiteNewsTop>>, <<SiteRoot, SiteNews>>, <<SiteRoot, SiteRoot>>}

\* The href values of the pages the site serves
Htmls ==
    {{<<"/", "a", "b", "o", "u", "t">>, <<"h", "t", "t", "p", "s", ":", "/", "/", "x", ".", "c", "o", "m", "/", "t", "e", "a", "m">>},
     {<<"/", "n", "e", "w", "s">>, <<"h", "t", "t", "p", "s", ":", "/", "/", "x", ".", "c", "o", "m", "/", "b", "l", "o", "g", "/", "a">>, <<"h", "t", "t", "p", "s", ":", "/", "/", "y", ".", "c", "o", "m", "/", "n", "e", "w", "s">>},
     {<<"h", "t", "t", "p", "s", ":", "/", "/", "x", ".", "c", "o", "m", "/", "n", "e", "w", "s", "#", "t", "o", "p">>, <<"/", "p", "o", "s", "t", "/", "1">>}}

\* fetch_html returned None
NoHtml == {<<>>}

Fetches == Htmls \cup {NoHtml}

InitCrawl ==
    /\ fx = FxIdle
    /\ updates = <<>>
    /\ scan = ScanIdle
    /\ lastRun = NoRun
    /\ crawled = {}
    /\ EmailIdle
    /\ EnrichAtRest
    /\ LaterAtRest

\* crawl_competitor, lines 139-143
CrawlStart(start_urls, max_pages_per_site, follow_within_domain_only) ==
    /\ crawl.pc = "idle"
    /\ crawl' = [CrawlIdle EXCEPT !.pc = "loop",
                                  !.start_urls = start_urls,
                                  !.max_pages_per_site = max_pages_per_site,
                                  !.follow_within_domain_only = follow_within_domain_only,
                                  !.queue = start_urls,
                                  !.entered = start_urls]
    /\ UNCHANGED <<webVars, updates, emailVars, enrichVars, jobVars, bg>>

\* crawl_competitor, lines 145-181: one iteration of the loop, with what
\* fetch_html returns when it is called
CrawlIterate(html) ==
    /\ crawl.pc = "loop"
    /\ LoopContinues(crawl.queue, crawl.visited, crawl.max_pages_per_site)
    /\ LET url == Pop(crawl.queue).url
           rest == Pop(crawl.queue).rest
           popped == Append(crawl.popped, url)
       IN IF url \in crawl.visited
          THEN crawl' = [crawl EXCEPT !.queue = rest, !.popped = popped,
                                      !.html = <<>>, !.new_links = 0]
          ELSE IF html = NoHtml
          THEN crawl' = [crawl EXCEPT !.queue = rest, !.popped = popped,
                                      !.visited = @ \cup {url},
                                      !.fetched = Append(@, url),
                                      !.fetch_errors = @ + 1,
                                      !.html = <<>>, !.new_links = 0]
          ELSE \E order \in Enumerations(NewLinks(discover_article_links(html, url),
                                                  crawl.start_urls, crawl.visited \cup {url},
                                                  rest, crawl.follow_within_domain_only)) :
                  crawl' = [crawl EXCEPT !.queue = rest \o order,
                                         !.popped = popped,
                                         !.visited = @ \cup {url},
                                         !.fetched = Append(@, url),
                                         !.pages = IF HasMarker(url) THEN Append(@, url) ELSE @,
                                         !.entered = @ \o order,
                                         !.html = <<html>>,
                                         !.new_links = Len(order)]
    /\ UNCHANGED <<webVars, updates, emailVars, enrichVars, jobVars, bg>>

\* crawl_competitor, line 183: the loop is left
CrawlFinish ==
    /\ crawl.pc = "loop"
    /\ ~LoopContinues(crawl.queue, crawl.visited, crawl.max_pages_per_site)
    /\ crawl' = [crawl EXCEPT !.pc = "done"]
    /\ UNCHANGED <<webVars, updates, emailVars, enrichVars, jobVars, bg>>

NextCrawl ==
    \/ \E start_urls \in SeedLists, max_pages_per_site \in 1..MaxPagesPerSite,
          follow_within_domain_only \in BOOLEAN :
          CrawlStart(start_urls, max_pages_per_site, follow_within_domain_only)
    \/ \E html \in Fetches : CrawlIterate(html)
    \/ CrawlFinish

SpecCrawl == InitCrawl /\ [][NextCrawl]_vars

\* The loop runs on as long as it can
SpecCrawlFair == SpecCrawl /\ WF_vars(NextCrawl)

---------------------------------------------------------------------------
(* SpecBg: the webhook process: receive_email injects emails of a           *)
(* configured competitor and calls run_enrichment_background, whose threads *)
(* run jobs.enrich_updates.main                                             *)

\* A variant of the test that lets every thread through
run_proceeds_unchecked(running) == TRUE

\* _run, line 62: "if _enrichment_running: return" lets the thread go on
\* when the flag is not set
run_proceeds(running) == ~running

\* The Message-ID of the k-th email received
BgMessageId(k) == <<"<", "m">> \o <<DigitChars[k + 1]>> \o <<"@", "x", ">">>

\* process_email_immediately, lines 286-300: the row of the k-th email
InjectedRow(k) ==
    [id |-> webhook_make_id(Acme, BgMessageId(k)),
     company |-> Acme,
     source_url |-> EmailUrl(Filename(BgMessageId(k), k)),
     title |-> <<"H", "i">>,
     published_at |-> <<>>,
     collected_at |-> <<DigitChars[k + 1]>>,
     clean_text |-> <<"b">>]

InitBg ==
    /\ fx = FxIdle
    /\ updates = <<>>
    /\ scan = ScanIdle
    /\ lastRun = NoRun
    /\ crawled = {}
    /\ EmailIdle
    /\ EnrichAtRest
    /\ LaterAtRest

\* Threads inside run_enrichment(), or past it and before the flag is reset
Active(t) == bg.threads[t].pc \in {"run", "loaded", "finally"}

\* receive_email, lines 405-407: process_email_immediately appends the row
\* of an email that matched and passed the quality gate
BgInject ==
    /\ bg.handler = "idle"
    /\ bg.received < MaxInjections
    /\ updates' = Append(updates, InjectedRow(bg.received + 1))
    /\ bg' = [bg EXCEPT !.handler = "trigger", !.received = @ + 1]
    /\ UNCHANGED <<webVars, emailVars, enrichVars, jobVars, crawl>>

\* run_enrichment_background, lines 55-78, called at line 414: nothing is
\* done when the flag is set; otherwise a thread is started
BgTrigger ==
    /\ bg.handler = "trigger"
    /\ bg' = IF bg.running
             THEN [bg EXCEPT !.handler = "idle", !.skipped = @ + 1]
             ELSE [bg EXCEPT !.handler = "idle",
                             !.threads[bg.received].pc = "start"]
    /\ UNCHANGED <<webVars, updates, emailVars, enrichVars, jobVars, crawl>>

\* _run, line 61: with _enrichment_lock
BgAcquire(t) ==
    /\ bg.threads[t].pc = "start"
    /\ bg.holder = 0
    /\ bg' = [bg EXCEPT !.holder = t, !.threads[t].pc = "locked"]
    /\ UNCHANGED <<webVars, updates, emailVars, enrichVars, jobVars, crawl>>

\* _run, lines 62-63: the flag is read under the lock; the thread returns,
\* giving the lock back, when it is set
BgCheck(t) ==
    /\ bg.threads[t].pc = "locked"
    /\ bg' = IF run_proceeds(bg.running)
             THEN [bg EXCEPT !.threads[t].pc = "set"]
             ELSE [bg EXCEPT !.holder = 0, !.threads[t].pc = "exit"]
    /\ UNCHANGED <<webVars, updates, emailVars, enrichVars, jobVars, crawl>>

\* _run, line 64, and the end of the with block
BgSet(t) ==
    /\ bg.threads[t].pc = "set"
    /\ bg' = [bg EXCEPT !.running = TRUE, !.holder = 0, !.threads[t].pc = "run",
                        !.runs = @ + 1]
    /\ UNCHANGED <<webVars, updates, emailVars, enrichVars, jobVars, crawl>>

\* enrich_updates.main, lines 166-169: load_raw() reads the ledger, which
\* holds a row by now
BgLoad(t) ==
    /\ bg.threads[t].pc = "run"
    /\ bg' = [bg EXCEPT !.threads[t].pc = "loaded",
                        !.threads[t].fresh = updates,
                        !.covered = IF Len(updates) > @ THEN Len(updates) ELSE @]
    /\ UNCHANGED <<webVars, updates, emailVars, enrichVars, jobVars, crawl>>

\* enrich_updates.main, lines 171-178: the rest of the job, which writes the
\* enriched file
BgEnrichWrite(t, response) ==
    /\ bg.threads[t].pc = "loaded"
    /\ enriched' = EnrichPass(bg.threads[t].fresh, enriched, response)
    /\ bg' = [bg EXCEPT !.threads[t].pc = "finally", !.threads[t].fresh = <<>>]
    /\ UNCHANGED <<webVars, updates, emailVars, enrich, jobVars, crawl>>

\* enrich_updates.main, lines 171-178, raises before the file is written;
\* _run, lines 71-72, catches the exception
BgEnrichRaise(t) ==
    /\ bg.threads[t].pc = "loaded"
    /\ bg' = [bg EXCEPT !.threads[t].pc = "finally", !.threads[t].raised = TRUE,
                        !.threads[t].fresh = <<>>]
    /\ UNCHANGED <<webVars, updates, emailVars, enrichVars, jobVars, crawl>>

\* _run, lines 73-74: finally
BgFinally(t) ==
    /\ bg.threads[t].pc = "finally"
    /\ bg' = [bg EXCEPT !.running = FALSE, !.threads[t].pc = "exit"]
    /\ UNCHANGED <<webVars, updates, emailVars, enrichVars, jobVars, crawl>>

\* The steps of the threads other than the one that writes the enriched
\* file; a thread that can take that step can take BgEnrichRaise too
BgScheduled ==
    \/ \E t \in BgThreads : BgAcquire(t)
    \/ \E t \in BgThreads : BgCheck(t)
    \/ \E t \in BgThreads : BgSet(t)
    \/ \E t \in BgThreads : BgLoad(t)
    \/ \E t \in BgThreads : BgEnrichRaise(t)
    \/ \E t \in BgThreads : BgFinally(t)

NextBg ==
    \/ BgInject
    \/ BgTrigger
    \/ \E t \in BgThreads : BgAcquire(t)
    \/ \E t \in BgThreads : BgCheck(t)
    \/ \E t \in BgThreads : BgSet(t)
    \/ \E t \in BgThreads : BgLoad(t)
    \/ \E t \in BgThreads : \E response \in DailyResponses : BgEnrichWrite(t, response)
    \/ \E t \in BgThreads : BgEnrichRaise(t)
    \/ \E t \in BgThreads : BgFinally(t)

SpecBg == InitBg /\ [][NextBg]_vars

\* A started thread is scheduled and the handler runs to its end: no thread
\* stays for ever where it can take a step. Whether another email arrives
\* is left open
SpecBgFair == SpecBg /\ WF_vars(BgScheduled) /\ WF_vars(BgTrigger)

---------------------------------------------------------------------------
(* Relations between generated URLs, used to state the claims *)

\* p and q are the same path, or one is the other with a slash appended to
\* an end that is not a slash.
SlashVariant(p, q) ==
    \/ p = q
    \/ (q = p \o <<"/">> /\ ~EndsWithSlash(p))
    \/ (p = q \o <<"/">> /\ ~EndsWithSlash(q))

\* u and v differ at most in letter case (scheme, host or path) and in a
\* trailing slash.
CaseOrSlashVariant(u, v) ==
    /\ LowerStr(u.scheme) = LowerStr(v.scheme)
    /\ LowerStr(u.host) = LowerStr(v.host)
    /\ SlashVariant(LowerStr(u.path), LowerStr(v.path))
    /\ u.query = v.query
    /\ u.frag = v.frag

\* u and v differ at most in the letter case of scheme and host and in a
\* trailing slash.
HostCaseOrSlashVariant(u, v) ==
    /\ LowerStr(u.scheme) = LowerStr(v.scheme)
    /\ LowerStr(u.host) = LowerStr(v.host)
    /\ SlashVariant(u.path, v.path)
    /\ u.query = v.query
    /\ u.frag = v.frag

\* u and v differ in their query string and in nothing else.
QueryVariant(u, v) ==
    /\ u.scheme = v.scheme
    /\ u.host = v.host
    /\ u.path = v.path
    /\ u.frag = v.frag
    /\ u.query # v.query

RowsWithId(id) == {i \in 1..Len(updates) : updates[i].id = id}
RowsWithUrl(url) == {i \in 1..Len(updates) : updates[i].source_url = url}

PageId(page) == make_id(page.company, Str(page.url))

---------------------------------------------------------------------------
(* Claims checked under SpecScan *)

---------------------------------------------------------------------------
(* Claims checked under SpecUrl *)

\* C4: make_id(c1, u1) = make_id(c2, u2) exactly when c1 = c2 and
\* normalize_url(u1) = normalize_url(u2), also for companies and URLs that
\* contain the separator "||".
C4_IdInjective ==
    fx.pc = "id" =>
        ((fx.ida = fx.idb) <=> (fx.a.company = fx.b.company /\ fx.na = fx.nb))

\* C5: normalize_url(normalize_url(u)) = normalize_url(u) for every URL,
\* including URLs whose path ends in several slashes.
C5_Idempotent ==
    fx.pc \in {"renorm", "id"} => (fx.nna = fx.na /\ fx.nnb = fx.nb)

\* C6, as claimed: two URLs that differ only in letter case or in a trailing
\* slash normalize to the same string; HTTP://Example.com/Blog/ and
\* http://example.com/blog do.
C6_CaseInsensitive ==
    fx.pc \in {"norm", "renorm", "id"} =>
        /\ (CaseOrSlashVariant(fx.a.url, fx.b.url) => fx.na = fx.nb)
        /\ ((fx.a.url = ExampleUpper /\ fx.b.url = ExampleLower) => fx.na = fx.nb)

\* C6, amended: two URLs that differ only in the letter case of scheme and
\* host or in a trailing slash normalize to the same string; the path keeps
\* its letter case, so HTTP://Example.com/Blog/ normalizes like
\* http://example.com/Blog and unlike http://example.com/blog.
C6_SchemeHostCaseInsensitive ==
    fx.pc \in {"norm", "renorm", "id"} =>
        /\ (HostCaseOrSlashVariant(fx.a.url, fx.b.url) => fx.na = fx.nb)
        /\ ((fx.a.url = ExampleUpper /\ fx.b.url = ExampleLowerHost) => fx.na = fx.nb)
        /\ ((fx.a.url = ExampleUpper /\ fx.b.url = ExampleLower) => fx.na # fx.nb)

\* HTTP://Example.com/Blog/ and http://example.com/Blog have been normalized.
C6_Witness ==
    /\ fx.pc = "norm"
    /\ fx.a.url = ExampleUpper
    /\ fx.b.url = ExampleLowerHost
    /\ fx.na = fx.nb

---------------------------------------------------------------------------
(* Claims checked under SpecEmail *)

\* The mails whose stored payload an Update Record's source_url names
Origins(row) ==
    {f.payload.mail : f \in {g \in files : EmailUrl(g.name) = row.source_url}}

\* C1: under any interleaving of the webhook's process_email_immediately and
\* the batch reprocessor process_emails.main, the Update Record ledger holds
\* at most one row with source_url email://<file stem> for every stored
\* email.
C1_OneRowPerEmail ==
    \A i, j \in 1..Len(updates) :
        (StartsWith(updates[i].source_url, EmailScheme)
         /\ updates[i].source_url = updates[j].source_url) => i = j

\* C8: the id of an email-origin Update Record depends only on (company,
\* message_id) and not on a time: two rows that come from deliveries of the
\* same mail, with or without a message-id header, and that carry the same
\* company have the same id, and when only the webhook has written they are
\* one and the same row.
C8_IdFromCompanyAndMessageId ==
    \A i, j \in 1..Len(updates) :
        (updates[i].company = updates[j].company
         /\ Origins(updates[i]) \cap Origins(updates[j]) # {}) =>
            /\ updates[i].id = updates[j].id
            /\ (batch.runs = 0 => i = j)

\* C9: when process_email_immediately is invoked for a json_file that is
\* already in the Email Record ledger, none of its steps changes the Email
\* Record ledger, the Sender Record ledger or the Update Record ledger, and
\* none consults the matcher or the quality-gate oracle.
C9_KnownFileIsNoOp ==
    [][(wh.pc # "idle" /\ wh.known /\ wh' # wh) =>
          /\ emails' = emails
          /\ senders' = senders
          /\ updates' = updates
          /\ wh'.oracle_calls = wh.oracle_calls]_vars

\* C10: under any interleaving of the steps that rewrite emails.csv, no step
\* takes an Email Record back: a record that is in the ledger is still in
\* it after the step, a matched company does not read back as "unmatched",
\* injected True does not read back as False, and status deleted does not
\* return to inbox.
C10_StageNeverRegresses ==
    [][\A i \in 1..Len(emails) : \E j \in 1..Len(emails') :
          /\ emails'[j].json_file = emails[i].json_file
          /\ (emails[i].matched_company # Unmatched =>
                emails'[j].matched_company # Unmatched)
          /\ (emails[i].injected = "True" => emails'[j].injected = "True")
          /\ (emails[i].status = "deleted" => emails'[j].status = "deleted")]_vars

\* The rows of a ledger that come from the stored email json_file
RowsOf(ledger, json_file) ==
    {i \in 1..Len(ledger) : ledger[i].source_url = EmailUrl(json_file)}

IsInjected(ledger, json_file) ==
    \E i \in 1..Len(ledger) :
        ledger[i].json_file = json_file /\ ledger[i].injected = "True"

\* C11: NO_MATCH and REJECTED are absorbing: once the run of a stored email
\* has ended at no-match or at a rejection by the quality gate, no step of
\* the webhook or of the batch reprocessor adds an Update Record for that
\* email, and no step marks its Email Record injected.
C11_AbsorbingOutcomes ==
    [][\A f \in wh.absorbed :
          /\ Cardinality(RowsOf(updates', f)) <= Cardinality(RowsOf(updates, f))
          /\ (IsInjected(emails', f) => IsInjected(emails, f))]_vars

\* The state SpecEmailLater starts from, as SpecEmail reaches it
EarlierReached ==
    /\ emails = save_email_record(<<>>, EarlierFile, FromAddr(EarlierPayload))
    /\ senders = update_sender_stats(<<>>, FromAddr(EarlierPayload), 1, 0, 0)
    /\ files = {[dir |-> "emails", name |-> EarlierFile, payload |-> EarlierPayload]}
    /\ updates = <<>>
    /\ wh.pc = "idle" /\ wh.absorbed = {EarlierFile}
    /\ batch.pc = "idle" /\ dash.pc = "idle"

\* C12: Email Record transitions and Sender Record counters move in lockstep
\* within each stage of the pipeline: the step that raises emails_received,
\* emails_processed or emails_injected belongs to a stage that has written
\* its Email Record (the appended record, matched_company with processed_at,
\* injected = True); no counter is raised when that write did not happen.
C12_Lockstep ==
    [][(wh.pc = "stats_write" /\ wh'.pc # "stats_write") => wh.wrote]_vars

\* No request or dashboard operation is under way, and none has so far been
\* started while the other process was at work
AfterSequence ==
    /\ wh.pc = "idle" /\ dash.pc = "idle"
    /\ ~wh.concurrent /\ ~dash.concurrent

\* C13: after any sequence of receive, match, inject, delete_email,
\* delete_sender and set_sender_assigned_company operations, the counters of
\* every Sender Record are what rebuild_sender_stats computes from the
\* non-deleted Email Records of that sender: their number, the number of
\* those with a matched company, the number of those injected.
C13_CountersRebuildable ==
    AfterSequence =>
        \A i \in 1..Len(senders) :
            /\ senders[i].emails_received
                  = Cardinality(InboxOf(emails, senders[i].from_address))
            /\ senders[i].emails_processed
                  = Cardinality(ProcessedOf(emails, senders[i].from_address))
            /\ senders[i].emails_injected
                  = Cardinality(InjectedOf(emails, senders[i].from_address))

\* C14: injection is all-or-nothing within one run of the pipeline: the
\* step that appends the Update Record of an email finds its id absent from
\* the Update Record ledger (when the id is already there no row is
\* written), and the step that raises emails_injected belongs to a run that
\* has marked the Email Record injected.
C14_InjectionAllOrNothing ==
    [][/\ (wh.pc = "append" /\ wh'.pc # "append") =>
             webhook_make_id(wh.company, MessageId(wh.payload))
                \notin webhook_load_existing_ids(updates)
       /\ (wh.pc = "stats_write" /\ wh.stage = "injected" /\ wh'.pc # "stats_write") =>
             wh.wrote]_vars

\* The assigned_company column of the sender's row, <<>> without a row
AssignedColumn(df, from_address) ==
    IF HasSender(df, from_address)
    THEN df[FirstSender(df, from_address)].assigned_company
    ELSE <<>>

\* C15: when the Sender Record of the sender has a non-empty
\* assigned_company, the matching step returns exactly that company and
\* makes no oracle call, whatever the oracle would have answered.
C15_AssignedCompanyWins ==
    [][(/\ wh.pc = "match" /\ wh'.pc # "match"
        /\ AssignedColumn(senders, FromAddr(wh.payload)) # <<>>) =>
          /\ wh'.pc = "matched_load"
          /\ wh'.company = AssignedColumn(senders, FromAddr(wh.payload))
          /\ wh'.oracle_calls = wh.oracle_calls
          /\ wh'.asked = <<>>]_vars

\* An email of a sender with an assignment has been matched to the assigned
\* company with no oracle call
C15_Witness ==
    /\ wh.pc = "matched_load"
    /\ wh.oracle_calls = 0
    /\ wh.company = BetaEU
    /\ AssignedColumn(senders, FromAddr(wh.payload)) = BetaEU

\* What the matching step returned: <<>> is None
MatchResult(w) == IF w.pc = "matched_load" THEN w.company ELSE <<>>

\* The text validates against the name: it is not empty and equals the
\* name ignoring case, or one contains the other ignoring case
Validates(text, name) ==
    /\ text # <<>>
    /\ \/ Contains(LowerStr(text), LowerStr(name))
       \/ Contains(LowerStr(name), LowerStr(text))

\* C16: without an assignment the matching step fails closed for every
\* outcome of the oracle: it returns no-match or a configured name; an
\* answer equal to a name ignoring case returns that name; the NONE
\* sentinel, an answer (an empty one included) that validates against no
\* name, and a call that raises all give no-match.
C16_MatcherFailsClosed ==
    [][(wh.pc = "match" /\ wh'.pc # "match" /\ wh'.asked # <<>>) =>
          LET answer == wh'.asked[1]
              text == Strip(answer.content)
              names == Range(get_competitor_names)
          IN /\ MatchResult(wh') \in names \cup {<<>>}
             /\ answer.raised => MatchResult(wh') = <<>>
             /\ (~answer.raised /\ UpperStr(text) = <<"N", "O", "N", "E">>) =>
                   MatchResult(wh') = <<>>
             /\ (~answer.raised /\ \E n \in names : LowerStr(n) = LowerStr(text)) =>
                   LowerStr(MatchResult(wh')) = LowerStr(text)
             /\ (~answer.raised /\ \A n \in names : ~Validates(text, n)) =>
                   MatchResult(wh') = <<>>]_vars

\* The oracle's answer is a rejection
IsReject(answer) ==
    ~answer.raised /\ UpperStr(Strip(answer.content)) = <<"R", "E", "J", "E", "C", "T">>

\* C17: the quality gate runs only after a match and fails open: the step
\* that asks it belongs to an email with a matched company; when the call
\* raises the email goes on to the injection step (the lookup of its id and
\* the append); a reject answer ends the run with no Update Record written.
C17_QualityGateFailsOpen ==
    [][(wh.pc = "quality" /\ wh'.pc # "quality") =>
          /\ wh.company \in Range(get_competitor_names)
          /\ wh'.asked # <<>>
          /\ wh'.asked[1].raised =>
                IF webhook_make_id(wh.company, MessageId(wh.payload)) \in wh.existing_ids
                THEN wh'.pc = "idle" /\ wh.json_file \notin wh'.absorbed \ wh.absorbed
                ELSE wh'.pc = "append"
          /\ IsReject(wh'.asked[1]) =>
                /\ wh'.pc = "idle"
                /\ wh.json_file \in wh'.absorbed
                /\ updates' = updates]_vars

\* The quality call raised and the email has gone on to the append
C17_Witness ==
    /\ wh.pc = "append"
    /\ wh.asked = <<Raised>>

---------------------------------------------------------------------------
(* Claims about the classification and the enrichment job *)

\* The step in which enrich_missing calls classify_article for one row
ClassifyStep == enrich.pc = "classify" /\ enrich' # enrich

Bogus == JsonObject([summary |-> SummaryText, category |-> <<"B", "o", "g", "u", "s">>,
                     impact |-> <<"C", "r", "i", "t", "i", "c", "a", "l">>])

\* C18 as stated: classify_article returns a category of the configured set
\* and an impact of High, Medium or Low; a category the model returned that
\* is in the set comes back unchanged and one outside it comes back as
\* "Other"; an impact in the set comes back unchanged and one outside it
\* comes back as "Low"
C18_CoercesWhatTheModelReturned ==
    [][ClassifyStep =>
         LET out == enrich'.out[1]
             answer == enrich'.asked[1]
         IN /\ out.category \in Range(get_categories)
            /\ out.impact \in Impacts
            /\ (enrich'.asked # <<>> /\ answer.object /\ "category" \in DOMAIN answer.data)
                 => out.category = IF answer.data.category \in Range(get_categories)
                                   THEN answer.data.category ELSE Other
            /\ (enrich'.asked # <<>> /\ answer.object /\ "impact" \in DOMAIN answer.data)
                 => out.impact = IF answer.data.impact \in Impacts
                                 THEN answer.data.impact ELSE ImpactLow]_vars

\* C18, amended: classify_article returns a category of the configured set
\* and an impact of High, Medium or Low; the category the model returned is
\* stripped of surrounding whitespace and the impact is stripped and
\* title-cased, and it is that value which comes back unchanged when it is
\* in the set and as "Other", for the impact "Low", when it is not
C18_CoercesAfterNormalising ==
    [][ClassifyStep =>
         LET out == enrich'.out[1]
             answer == enrich'.asked[1]
         IN /\ out.category \in Range(get_categories)
            /\ out.impact \in Impacts
            /\ (enrich'.asked # <<>> /\ answer.object /\ "category" \in DOMAIN answer.data)
                 => out.category = IF Strip(answer.data.category) \in Range(get_categories)
                                   THEN Strip(answer.data.category) ELSE Other
            /\ (enrich'.asked # <<>> /\ answer.object /\ "impact" \in DOMAIN answer.data)
                 => out.impact = IF Title(Strip(answer.data.impact)) \in Impacts
                                 THEN Title(Strip(answer.data.impact)) ELSE ImpactLow]_vars

\* The model answered Bogus and Critical, and Other and Low came back
C18_Witness ==
    /\ enrich.asked = <<Bogus>>
    /\ enrich.out # <<>>
    /\ enrich.out[1].category = Other
    /\ enrich.out[1].impact = ImpactLow

\* The classifier call of the step just taken failed: the call raised, or
\* its content was not a JSON object
ClassifierFailed(e) == e.asked # <<>> /\ (e.asked[1].raised \/ ~e.asked[1].object)

IsFallback(row) == row.summary = <<>> /\ row.category = Other /\ row.impact = ImpactLow

\* C19: when the classifier call fails for a row, classify_article returns
\* an empty summary with "Other" and "Low", the row is enriched with these
\* and the loop goes on to the next row; the job is never ended by it, every
\* position of a started pass has a next step, and the pass ends with the
\* enriched ledger written with one row for each raw row, which are all
\* fallback rows when every call of a pass over the whole ledger failed
C19_ClassifierFailureNeverAborts ==
    [][/\ enrich'.pc # "aborted"
       /\ enrich.pc \in {"merge", "classify", "write"} => ENABLED NextEnrich
       /\ (ClassifyStep /\ ClassifierFailed(enrich'))
            => /\ enrich'.out = <<Fallback>>
               /\ enrich'.todo = Tail(enrich.todo)
               /\ Len(enrich'.rows) = Len(enrich.rows) + 1
               /\ IsFallback(enrich'.rows[Len(enrich'.rows)])
               /\ enrich'.pc = IF enrich'.todo = <<>> THEN "write" ELSE "classify"
       /\ (enrich.pc = "write" /\ enrich' # enrich)
            => /\ enrich'.pc = "idle"
               /\ Len(enriched') = Len(updates)
               /\ \A i \in 1..Len(updates) :
                     /\ enriched'[i].company = updates[i].company
                     /\ enriched'[i].source_url = updates[i].source_url
               /\ (enrich.calls = Len(updates) /\ enrich.failed = enrich.calls)
                     => \A i \in 1..Len(enriched') : IsFallback(enriched'[i])]_vars

\* A pass over two rows is over, the classifier failed for both and the
\* enriched ledger holds the two rows
C19_Witness ==
    /\ enrich.pc = "idle"
    /\ enrich.calls = 2
    /\ enrich.failed = 2
    /\ Len(enriched) = 2
    /\ \A i \in 1..2 : IsFallback(enriched[i])

SameKey(a, b) == a.company = b.company /\ a.source_url = b.source_url

\* Every non-empty summary, category and impact of the rows of existing is
\* the value of the row of the same key in later
KeepsEnrichment(existing, later) ==
    \A i \in 1..Len(existing) : \A j \in 1..Len(later) :
        SameKey(existing[i], later[j])
          => /\ existing[i].summary # <<>> => later[j].summary = existing[i].summary
             /\ existing[i].category # <<>> => later[j].category = existing[i].category
             /\ existing[i].impact # <<>> => later[j].impact = existing[i].impact

\* C20: for every (company, source_url) of the enriched file whose row has
\* a non-empty summary, category or impact, the frame merge_keep_existing
\* gives for the freshly loaded rows holds that value, and the file the pass
\* writes still holds it
C20_ReingestionKeepsEnrichment ==
    [][/\ (enrich.pc = "merge" /\ enrich' # enrich) => KeepsEnrichment(enriched, enrich'.df)
       /\ (enrich.pc = "write" /\ enrich' # enrich) => KeepsEnrichment(enriched, enriched')]_vars

---------------------------------------------------------------------------
(* Claims about the merge jobs and the crawl frontier *)

\* The reference timestamp of a row of a frame: published_at, or
\* collected_at when published_at is absent
RefOf(row) == IF row.published_at.nat THEN row.collected_at ELSE row.published_at

MoreRecent(x, y) == ~x.nat /\ (y.nat \/ x.day > y.day)

\* result holds one row for each key of input, which is a row of input of
\* that key
OneRowPerKey(input, result) ==
    /\ ~RepeatsKey(result)
    /\ \A i \in 1..Len(input) : \E j \in 1..Len(result) : SameKeyAs(input[i], result[j])
    /\ \A j \in 1..Len(result) : \E i \in 1..Len(input) : input[i] = result[j]

\* No row of input is more recent than the row result holds for its key
KeepsMostRecent(input, result) ==
    \A i \in 1..Len(input) : \A j \in 1..Len(result) :
        SameKeyAs(input[i], result[j]) => ~MoreRecent(RefOf(input[i]), RefOf(result[j]))

\* C21: the frame append_updates.main makes of the ledger and the new file,
\* the frame fetch_rss.main makes of the ledger and the entries fetched for
\* update_daily, and the frame update_daily.dedupe makes of the ledger, hold
\* exactly one row for each (company, source_url), and it is a row of that
\* key with the most recent reference timestamp
C21_KeepsMostRecentRow ==
    [][/\ (ap.pc = "idle" /\ ap'.pc = "tmp")
            => /\ OneRowPerKey(ToFrame(ap'.base \o ap'.add), ToFrame(ap'.merged))
               /\ KeepsMostRecent(ToFrame(ap'.base \o ap'.add), ToFrame(ap'.merged))
       /\ \A i \in Instances :
            (ud[i].pc = "fetch_read" /\ ud'[i].pc = "fetch_open")
              => /\ OneRowPerKey(ToFrame(ud'[i].cur \o ud'[i].new_df), ToFrame(ud'[i].merged))
                 /\ KeepsMostRecent(ToFrame(ud'[i].cur \o ud'[i].new_df),
                                    ToFrame(ud'[i].merged))
       /\ \A i \in Instances :
            (ud[i].pc = "dedupe_read" /\ ud'[i].pc = "dedupe_tmp")
              => /\ OneRowPerKey(ToFrame(ud'[i].cur), ToFrame(ud'[i].raw))
                 /\ KeepsMostRecent(ToFrame(ud'[i].cur), ToFrame(ud'[i].raw))]_vars

\* C22: a step of a writer leaves the ledger file as it was or makes it the
\* complete frame the writer is writing: the merged frame of fetch_rss.main,
\* the temporary file update_daily.main and append_updates.main rename
C22_LedgerWritesAtomic ==
    [][/\ \A i \in Instances :
            ud'[i] # ud[i]
              => updates' \in {updates, ud[i].merged, IF tmp.exists THEN tmp.rows ELSE updates}
       /\ ap' # ap
            => updates' \in {updates, IF tmp.exists THEN tmp.rows ELSE updates}]_vars

\* The instance is between acquire_lock and release_lock
HoldsLock(i) ==
    ud[i].pc \in {"fetch_read", "fetch_open", "fetch_write", "dedupe_read", "dedupe_tmp",
                  "dedupe_replace", "enrich", "release"}

\* An instance finds the lock file and exits, leaving every file as it is
ExitsUntouched(i) ==
    (ud[i].pc = "idle" /\ ud'[i].pc = "exited")
      => lock /\ lock' /\ UNCHANGED <<updates, enriched, tmp>>

\* C23: at most one update_daily instance is between acquire_lock and
\* release_lock at any time, and an instance that finds the lock held exits
\* without doing any work and without removing the lock
C23_LockExcludes ==
    [][/\ \A i, j \in Instances : (HoldsLock(i)' /\ HoldsLock(j)') => i = j
       /\ \A i \in Instances : ExitsUntouched(i)]_vars

\* The row was made from a crawled page
IsWebRow(row) == ~StartsWith(row.source_url, EmailScheme)

\* C24: a step never takes the row of a crawled page out of the ledger: for
\* every row of a crawled page, the ledger after the step holds a row of its
\* (company, source_url)
C24_WebRowsNeverDeleted ==
    [][\A i \in 1..Len(updates) :
          IsWebRow(updates[i])
            => \E j \in 1..Len(updates') : SameKey(updates[i], updates'[j])]_vars

\* The budget of a crawl_competitor run: every fetch_html call, failed or
\* not, is counted; the run has stopped only with the queue empty or the
\* budget used up
WithinBudget ==
    /\ Len(crawl.fetched) <= crawl.max_pages_per_site
    /\ crawl.fetch_errors <= Len(crawl.fetched)
    /\ Len(crawl.fetched) = Cardinality(crawl.visited)
    /\ crawl.pc = "done"
         => \/ crawl.queue = <<>>
            \/ Cardinality(crawl.visited) = crawl.max_pages_per_site

\* C25: crawl_competitor calls fetch_html at most max_pages_per_site times,
\* failed fetches included, and then terminates; when it has terminated the
\* queue is empty or the visited set has max_pages_per_site members.
C25_AtMostMaxFetchesThenStops == []WithinBudget /\ <>(crawl.pc = "done")

\* A run that used up its budget on a failed fetch and stopped with URLs
\* still queued
C25_Witness ==
    /\ crawl.pc = "done"
    /\ crawl.fetch_errors >= 1
    /\ Len(crawl.fetched) = crawl.max_pages_per_site
    /\ crawl.queue # <<>>

\* The page a URL names: the URL without its fragment
PageOf(url) == crawl_normalize_url(url, url)

\* C26: no page is fetched twice in a run: the visited set holds normalized
\* URLs and a URL whose normalized form is in the visited set is not
\* fetched again, be the earlier fetch failed or not.
C26_NoPageFetchedTwice ==
    /\ \A url \in crawl.visited : PageOf(url) = url
    /\ \A i, j \in 1..Len(crawl.fetched) :
          PageOf(crawl.fetched[i]) = PageOf(crawl.fetched[j]) => i = j

\* What holds of the visited set: no URL string is fetched twice, and a link
\* enters the queue only while it is neither visited nor queued
NoStringFetchedTwice ==
    /\ \A i, j \in 1..Len(crawl.fetched) : crawl.fetched[i] = crawl.fetched[j] => i = j
    /\ \A i, j \in 1..Len(crawl.queue) :
          (i # j /\ crawl.queue[i] = crawl.queue[j])
             => (i <= Len(crawl.start_urls) /\ j <= Len(crawl.start_urls))
    /\ \A i \in 1..Len(crawl.queue) :
          crawl.queue[i] \in crawl.visited => crawl.queue[i] \in Range(crawl.start_urls)

\* C27: the frontier is first in, first out: the URLs leave the queue in the
\* order in which they entered it, the seeds first in their configured order.
C27_FrontierIsFifo ==
    /\ crawl.popped \o crawl.queue = crawl.entered
    /\ Len(crawl.entered) >= Len(crawl.start_urls)
    /\ SubSeq(crawl.entered, 1, Len(crawl.start_urls)) = crawl.start_urls

\* Two seeds were taken in their order, and a link found on the first is
\* queued behind the second
C27_Witness ==
    /\ Len(crawl.start_urls) = 2
    /\ crawl.start_urls[1] # crawl.start_urls[2]
    /\ crawl.popped = crawl.start_urls
    /\ crawl.fetched = crawl.start_urls
    /\ Len(crawl.entered) > 2

\* A run with one seed, whose page was fetched and links to no article path
OneSeedNoArticleLinks ==
    /\ Len(crawl.start_urls) = 1
    /\ crawl.fetched = crawl.start_urls
    /\ crawl.html # <<>>
    /\ \A a \in crawl.html[1] : ~HasMarker(crawl_normalize_url(crawl.start_urls[1], a))

\* C28 as stated: such a run yields no Page and queues no link, whatever the
\* seed URL.
C28_NoPagesNoLinks ==
    OneSeedNoArticleLinks
       => /\ crawl.pages = <<>>
          /\ crawl.new_links = 0
          /\ crawl.entered = crawl.start_urls

\* C28: such a run queues no link; it yields no Page when the seed URL holds
\* no article path marker, and the seed's own page when it holds one.
C28_NoLinksAndSeedPageOnly ==
    OneSeedNoArticleLinks
       => /\ crawl.new_links = 0
          /\ crawl.entered = crawl.start_urls
          /\ crawl.queue = <<>>
          /\ crawl.pages = IF HasMarker(crawl.start_urls[1]) THEN crawl.start_urls ELSE <<>>

\* The run of a seed without marker has stopped with nothing yielded
C28_Witness ==
    /\ OneSeedNoArticleLinks
    /\ ~HasMarker(crawl.start_urls[1])
    /\ crawl.pc = "done"
    /\ crawl.pages = <<>>

---------------------------------------------------------------------------
(* Claims about the background enrichment of the webhook process *)

\* C29: at most one background enrichment run is active in the webhook
\* process at any time, and _enrichment_running is set exactly while a run
\* is active: it is False again after every run, one that raised included.
C29_AtMostOneRunActive ==
    /\ Cardinality({t \in BgThreads : Active(t)}) <= 1
    /\ bg.running <=> \E t \in BgThreads : Active(t)

\* A run that raised is over, a later run is active, and a third thread
\* holds the lock and is about to test the flag
C29_Witness ==
    \E t, u, v \in BgThreads :
        /\ bg.threads[t].pc = "exit" /\ bg.threads[t].raised
        /\ Active(u)
        /\ bg.threads[v].pc = "locked"

\* C30: every injected record is eventually covered by a background
\* enrichment run that loads the ledger after the record was appended, also
\* when its trigger arrived while a run was active.
C30_EveryInjectionCovered ==
    \A k \in BgThreads : (Len(updates) >= k) ~> (bg.covered >= k)

====
